---- MODULE Spec2Model ----
(***************************************************************************)
(* State machine of the IOS ES device (Source/Core/Core/IOS/ES/ES.cpp):    *)
(* the process-wide title context, the content access table, the title     *)
(* import session and the title export session, driven by the ioctlv       *)
(* handlers.  One action per handler; each action records the call and its *)
(* reply in the variable last.                                             *)
(***************************************************************************)
EXTENDS Integers, Sequences, FiniteSets, TLC

(***************************************************************************)
(* 32-bit unsigned values.  A u32 is kept as two 16-bit limbs <<hi, lo>>,  *)
(* so that every 32-bit value is representable and arithmetic wraps at     *)
(* 2^32 exactly as the C++ unsigned arithmetic does.                       *)
(***************************************************************************)
Limb == 2^16

U(n) == <<n \div Limb, n % Limb>>

Add32(a, b) ==
  LET lo == a[2] + b[2]
      hi == a[1] + b[1] + (lo \div Limb)
  IN  <<hi % Limb, lo % Limb>>

Neg32(a) == Add32(<<(Limb - 1) - a[1], (Limb - 1) - a[2]>>, U(1))

Sub32(a, b) == Add32(a, Neg32(b))

Gt32(a, b) == \/ a[1] > b[1]
              \/ a[1] = b[1] /\ a[2] > b[2]

\* static_cast<u16>(u32): the implicit narrowing at a call that takes u16.
Trunc16(a) == a[2]

(***************************************************************************)
(* Replies.  GetDefaultReply(code) carries a named error code or a 32-bit  *)
(* value (IPC_SUCCESS is the value 0); GetNoReply() produces no reply.     *)
(***************************************************************************)
Error(name) == [err |-> name, val |-> U(0)]

Value(v) == [err |-> "none", val |-> v]

IPC_SUCCESS == Value(U(0))

ES_PARAMETER_SIZE_OR_ALIGNMENT == Error("ES_PARAMETER_SIZE_OR_ALIGNMENT")

ES_INVALID_TMD == Error("ES_INVALID_TMD")

ES_WRITE_FAILURE == Error("ES_WRITE_FAILURE")

ES_NO_TICKET_INSTALLED == Error("ES_NO_TICKET_INSTALLED")

ES_READ_LESS_DATA_THAN_EXPECTED == Error("ES_READ_LESS_DATA_THAN_EXPECTED")

FS_ENOENT == Error("FS_ENOENT")

FS_EACCESS == Error("FS_EACCESS")

NoReturn == Error("void")

\* GetDefaultReply(-1) and the 0xffffffff returned by a failed open.
InvalidCFD == <<Limb - 1, Limb - 1>>

(***************************************************************************)
(* Titles.  A 64-bit title id is <<type, identifier>> (high and low 32     *)
(* bits).  A TMD or ticket reader is the title id it names, the IOS it     *)
(* requires, and whether its bytes are well formed.                        *)
(***************************************************************************)
NoTitle == <<0, 0>>

TITLEID_SYSMENU == <<1, 2>>

IOS9 == <<1, 9>>

GameA == <<65536, 1>>

GameB == <<65536, 2>>

ChannelC == <<65537, 3>>

ChannelD == <<65537, 4>>

ChannelS == <<65537, 5>>

TMDReader(id, ios, ok) == [title_id |-> id, ios_id |-> ios, valid |-> ok]

TicketReader(id, ok) == [title_id |-> id, valid |-> ok]

\* SetBytes({}): a reader over no bytes is not valid.
EmptyTMD == TMDReader(NoTitle, NoTitle, FALSE)

EmptyTicket == TicketReader(NoTitle, FALSE)

\* TMDs and tickets a caller can hand to the service.
TMDs == { EmptyTMD,
          TMDReader(GameA, IOS9, TRUE),
          TMDReader(GameB, IOS9, TRUE),
          TMDReader(GameA, IOS9, FALSE) }

Tickets == { EmptyTicket,
             TicketReader(GameA, TRUE),
             TicketReader(GameB, TRUE),
             TicketReader(GameB, FALSE) }

(***************************************************************************)
(* Content loaders (DiscIO::CNANDContentLoader).  A loader is valid or     *)
(* not, carries a TMD and a ticket, and holds contents, each with a        *)
(* content id, a 16-bit index and a declared size.                         *)
(***************************************************************************)
Content(id, index, size) == [id |-> id, index |-> index, size |-> size]

NoContent == Content(0, 0, 0)

Loader(ok, tmd, ticket, contents) ==
  [valid |-> ok, tmd |-> tmd, ticket |-> ticket, contents |-> contents]

InvalidLoader == Loader(FALSE, EmptyTMD, EmptyTicket, {})

GameAContents == { Content(7, 0, 3), Content(8, 1, 2) }

\* The titles installed on the NAND of the session.
InstalledTitles ==
  [t \in {TITLEID_SYSMENU, GameA, GameB, ChannelC, ChannelD, ChannelS} |->
     CASE t = TITLEID_SYSMENU ->
            Loader(TRUE, TMDReader(TITLEID_SYSMENU, IOS9, TRUE),
                   TicketReader(TITLEID_SYSMENU, TRUE), { Content(1, 0, 2) })
       [] t = GameA ->
            Loader(TRUE, TMDReader(GameA, IOS9, TRUE), TicketReader(GameA, TRUE),
                   GameAContents)
       [] t = GameB -> InvalidLoader
       [] t = ChannelC ->
            Loader(TRUE, TMDReader(ChannelC, IOS9, TRUE), TicketReader(ChannelC, FALSE),
                   { Content(9, 0, 3) })
       [] t = ChannelD ->
            Loader(TRUE, TMDReader(ChannelD, GameA, TRUE), TicketReader(ChannelD, TRUE),
                   { Content(5, 258, 3) })
       [] t = ChannelS ->
            Loader(TRUE, TMDReader(ChannelS, ChannelS, TRUE), TicketReader(ChannelS, TRUE),
                   { Content(6, 0, 2) })]

\* WAD files that can be booted without being installed.
WadFiles == {"b.wad", "bad.wad"}

WadLoader(file) ==
  IF file = "b.wad"
    THEN Loader(TRUE, TMDReader(GameB, IOS9, TRUE), TicketReader(GameB, TRUE),
                { Content(3, 0, 2) })
    ELSE InvalidLoader

VARIABLES
  s_title_context,            \* TitleContext: ticket, tmd, active, first_change
  s_content_file,             \* WAD file the running title was loaded from, or ""
  s_title_to_launch,          \* title to launch after the IOS reload, or NoTitle
  nand,                       \* title id -> content loader of the installed title
  m_ContentAccessMap,         \* CFD -> OpenedContent
  m_AccessIdentID,            \* next CFD
  m_addtitle_tmd,             \* import session: pending TMD
  m_addtitle_content_id,      \* import session: pending content id
  m_addtitle_content_buffer,  \* import session: accumulated bytes
  m_export_title_context,     \* export session
  session_root,               \* files the import handlers have written
  savestate,                  \* the bytes written by DoState in MODE_WRITE
  last,                       \* the last call: handler, arguments, reply
  hist,                       \* what has happened to the title context so far
  m_Active,                   \* STM event-hook device: open or not
  m_event_hook_address,       \* STM event-hook device: the parked request, or 0
  memory,                     \* command address -> the result word at address + 4
  reply_queue,                \* addresses handed to EnqueueReply, oldest first
  parked                      \* every event-hook request so far, and the one registered

vars == <<s_title_context, s_content_file, s_title_to_launch, nand,
          m_ContentAccessMap, m_AccessIdentID, m_addtitle_tmd,
          m_addtitle_content_id, m_addtitle_content_buffer,
          m_export_title_context, session_root, savestate, last, hist,
          m_Active, m_event_hook_address, memory, reply_queue, parked>>

\* The STM event-hook device and the replies it has enqueued; no handler of ES
\* touches them.
stm_vars == <<m_Active, m_event_hook_address, memory, reply_queue, parked>>

es_vars == <<m_ContentAccessMap, m_AccessIdentID, m_addtitle_tmd,
             m_addtitle_content_id, m_addtitle_content_buffer,
             m_export_title_context, session_root, stm_vars>>

(***************************************************************************)
(* TitleContext                                                            *)
(***************************************************************************)
\* Command addresses of the requests sent to the STM event-hook device.
StmAddrVals == {16, 32}

\* No command has had its result word written; no event-hook request yet.
NoResults == [a \in StmAddrVals |-> "unset"]

NoRequests == [requests |-> << >>, current |-> 0]

\* TitleContext{}: the member initialisers.
NewTitleContext ==
  [ticket |-> EmptyTicket, tmd |-> EmptyTMD, active |-> FALSE, first_change |-> TRUE]

\* A Clear that also re-arms the notification.
TitleContext_Clear_Rearms(c) ==
  [c EXCEPT !.ticket = EmptyTicket, !.tmd = EmptyTMD, !.active = FALSE,
            !.first_change = TRUE]

\* A Clear that drops the ticket and the TMD but leaves the context active.
TitleContext_Clear_KeepsActive(c) ==
  [c EXCEPT !.ticket = EmptyTicket, !.tmd = EmptyTMD]

TitleContext_Clear(c) ==
  [c EXCEPT !.ticket = EmptyTicket, !.tmd = EmptyTMD, !.active = FALSE]

\* An Update that keeps the old ticket.
TitleContext_Update_KeepsTicket(c, tmd_, ticket_) ==
  IF ~tmd_.valid \/ ~ticket_.valid
    THEN [ctx |-> c, fired |-> 0]
    ELSE [ctx |-> [ticket |-> c.ticket, tmd |-> tmd_, active |-> TRUE,
                   first_change |-> FALSE],
          fired |-> IF c.first_change THEN 1 ELSE 0]

\* An Update that notifies on every success.
TitleContext_Update_AlwaysFires(c, tmd_, ticket_) ==
  IF ~tmd_.valid \/ ~ticket_.valid
    THEN [ctx |-> c, fired |-> 0]
    ELSE [ctx |-> [ticket |-> ticket_, tmd |-> tmd_, active |-> TRUE,
                   first_change |-> FALSE],
          fired |-> 1]

\* An Update that refuses only when both the TMD and the ticket are invalid.
TitleContext_Update_EitherValid(c, tmd_, ticket_) ==
  IF ~tmd_.valid /\ ~ticket_.valid
    THEN [ctx |-> c, fired |-> 0]
    ELSE [ctx |-> [ticket |-> ticket_, tmd |-> tmd_, active |-> TRUE,
                   first_change |-> FALSE],
          fired |-> IF c.first_change THEN 1 ELSE 0]

\* Update(tmd_, ticket_): the new context and the number of UpdateRunningGame calls.
TitleContext_Update(c, tmd_, ticket_) ==
  IF ~tmd_.valid \/ ~ticket_.valid
    THEN [ctx |-> c, fired |-> 0]
    ELSE [ctx |-> [ticket |-> ticket_, tmd |-> tmd_, active |-> TRUE,
                   first_change |-> FALSE],
          fired |-> IF c.first_change THEN 1 ELSE 0]

\* Update(content_loader)
TitleContext_UpdateLoader(c, loader) ==
  IF ~loader.valid
    THEN [ctx |-> c, fired |-> 0]
    ELSE TitleContext_Update(c, loader.tmd, loader.ticket)

\* TitleContext::DoState in MODE_READ: first_change is not part of the state.
TitleContext_DoStateRead(c, saved) ==
  [c EXCEPT !.ticket = saved.ticket, !.tmd = saved.tmd, !.active = saved.active]

TitleContext_DoStateWrite(c) ==
  [ticket |-> c.ticket, tmd |-> c.tmd, active |-> c.active]

(***************************************************************************)
(* The record of the last call.                                            *)
(***************************************************************************)
NoCall ==
  [op |-> "none", shape |-> <<0, 0>>, ret |-> NoReturn, fired |-> 0,
   title |-> NoTitle, tmd |-> EmptyTMD, ticket |-> EmptyTicket,
   x |-> U(0), cfd |-> 0, ok |-> TRUE,
   skip |-> FALSE, launches |-> 0, loaders |-> 0, reload |-> NoTitle,
   reload_ok |-> TRUE, boot |-> 0, result |-> TRUE, acks |-> 0,
   key |-> 0, iv |-> 0, input |-> << >>, partial |-> FALSE, new_iv |-> 0,
   output |-> << >>, io |-> TRUE, cut |-> FALSE, written |-> 0]

Call(op, shape, ret) == [NoCall EXCEPT !.op = op, !.shape = shape, !.ret = ret]

\* The vector counts a caller may send to a handler that accepts (a, b).
ShapesFor(a, b) == { <<a, b>>, <<a + 1, b>>, <<a, b + 1>> }

\* The vector counts each handler accepts.
AcceptedShape(op) ==
  CASE op = "OpenTitleContent" -> <<3, 0>>
    [] op = "OpenContent" -> <<1, 0>>
    [] op = "ReadContent" -> <<1, 1>>
    [] op = "CloseContent" -> <<1, 0>>
    [] op = "SeekContent" -> <<3, 0>>
    [] op = "Launch" -> <<2, 0>>
    [] op = "LaunchBC" -> <<0, 0>>
    [] op = "DeleteTitle" -> <<1, 0>>
    [] op = "DeleteTitleContent" -> <<1, 0>>
    [] op = "Encrypt" -> <<3, 2>>
    [] op = "Decrypt" -> <<3, 2>>
    [] op = "AddTMD" -> <<1, 0>>
    [] op = "AddTitleStart" -> <<4, 0>>
    [] op = "AddContentStart" -> <<2, 0>>
    [] op = "AddContentData" -> <<2, 0>>
    [] op = "AddContentFinish" -> <<1, 0>>
    [] op = "AddTitleFinish" -> <<0, 0>>
    [] op = "ExportTitleInit" -> <<1, 1>>
    [] op = "ExportContentBegin" -> <<2, 0>>
    [] op = "ExportContentData" -> <<1, 1>>
    [] op = "ExportContentEnd" -> <<1, 0>>
    [] op = "ExportTitleDone" -> <<0, 0>>  \* takes no vectors; the handler checks none
    [] OTHER -> <<0, 0>>

\* IOCtlVRequest::HasNumberOfValidVectors
HasNumberOfValidVectors(shape, in_count, io_count) ==
  shape[1] = in_count /\ shape[2] = io_count

(***************************************************************************)
(* History of the title context, kept for the statements about the         *)
(* running-title notification:                                             *)
(*   updates        successful updates since the last ES::Init (2 = more)  *)
(*   clear_pending  a Clear has happened and no successful Update since    *)
(*   after_clear    the last successful Update found clear_pending set     *)
(*   while_active   the last successful Update found the context active    *)
(***************************************************************************)
NoHistory ==
  [updates |-> 0, clear_pending |-> FALSE, after_clear |-> FALSE,
   while_active |-> FALSE]

HistUpdate(h, before, tmd_, ticket_) ==
  IF tmd_.valid /\ ticket_.valid
    THEN [updates |-> IF h.updates = 0 THEN 1 ELSE 2, clear_pending |-> FALSE,
          after_clear |-> h.clear_pending, while_active |-> before.active]
    ELSE h

HistClear(h) == [h EXCEPT !.clear_pending = TRUE]

(***************************************************************************)
(* ES: construction and Init                                               *)
(***************************************************************************)
EmptyMap == [cfd \in {} |-> 0]

NoExport ==
  [valid |-> FALSE, tmd |-> EmptyTMD, title_key |-> NoTitle, contents |-> EmptyMap]

\* ES::AccessContentDevice
AccessContentDevice(ctx, content_file, titles, title_id) ==
  IF ctx.active /\ ctx.tmd.title_id = title_id /\ content_file # ""
    THEN WadLoader(content_file)
    ELSE IF title_id \in DOMAIN titles THEN titles[title_id] ELSE InvalidLoader

OpenedContent(title_id, content, position) ==
  [m_title_id |-> title_id, m_content |-> content, m_position |-> position]

\* CNANDContentLoader::GetContentByIndex: the contents with that index (none: nullptr)
GetContentByIndex(loader, index) == { c \in loader.contents : c.index = index }

\* u32 ES::OpenTitleContent(u32 CFD, u64 TitleID, u16 Index): the table afterwards
\* and the returned CFD.
OpenTitleContent(map, ctx, content_file, titles, CFD, TitleID, Index) ==
  LET Loader_ == AccessContentDevice(ctx, content_file, titles, TitleID)
      found   == GetContentByIndex(Loader_, Index)
  IN  IF ~Loader_.valid \/ ~Loader_.tmd.valid \/ ~Loader_.ticket.valid
        THEN [map |-> map, cfd |-> InvalidCFD]
        ELSE IF found = {}
          THEN [map |-> map, cfd |-> InvalidCFD]
          ELSE LET pContent == CHOOSE c \in found : TRUE
                   content  == OpenedContent(TitleID, pContent, U(0))
               IN  [map |-> [k \in DOMAIN map \cup {CFD} |->
                               IF k = CFD THEN content ELSE map[k]],
                    cfd |-> U(CFD)]

\* What DoState writes in MODE_WRITE.
Snapshot(present, content_file, ident, ctx, tmd, content_id, buffer, export, map) ==
  [present |-> present, s_content_file |-> content_file, m_AccessIdentID |-> ident,
   s_title_context |-> TitleContext_DoStateWrite(ctx), m_addtitle_tmd |-> tmd,
   m_addtitle_content_id |-> content_id, m_addtitle_content_buffer |-> buffer,
   m_export_title_context |-> export, m_ContentAccessMap |-> map]

NoSave ==
  Snapshot(FALSE, "", 0, NewTitleContext, EmptyTMD, InvalidCFD, << >>, NoExport, EmptyMap)

\* The loop of ES::DoState in MODE_READ: every saved (cfd, content) is opened again
\* with OpenTitleContent on top of the entries the table already holds.
ReopenContents(map, ctx, content_file, titles, saved) ==
  LET opened(k) == OpenTitleContent(map, ctx, content_file, titles, k,
                                    saved[k].m_title_id, saved[k].m_content.index)
      ok == { k \in DOMAIN saved : opened(k).cfd # InvalidCFD }
  IN  [k \in DOMAIN map \cup ok |-> IF k \in ok THEN opened(k).map[k] ELSE map[k]]

Init ==
  /\ s_title_context = NewTitleContext
  /\ s_content_file = ""
  /\ s_title_to_launch = NoTitle
  /\ nand = InstalledTitles
  /\ m_ContentAccessMap = EmptyMap
  /\ m_AccessIdentID = 0
  /\ m_addtitle_tmd = EmptyTMD
  /\ m_addtitle_content_id = InvalidCFD
  /\ m_addtitle_content_buffer = << >>
  /\ m_export_title_context = NoExport
  /\ session_root = {}
  /\ savestate = NoSave
  /\ last = NoCall
  /\ hist = NoHistory
  /\ m_Active = FALSE
  /\ m_event_hook_address = 0
  /\ memory = NoResults
  /\ reply_queue = << >>
  /\ parked = NoRequests

\* Deepest nesting of LaunchTitle calls the model follows.
MaxLaunchDepth == 3

\* IOS::ES::IsTitleType(title_id, TitleType::System): the upper 32 bits are 1.
IsSystemTitle(title_id) == title_id[1] = 1

\* What a LaunchTitle call has done so far: the title context and the pending
\* launch, the number of LaunchTitle calls and of loaders resolved, the IOS a reload
\* was started to, the number of UpdateRunningGame and BootstrapPPC calls, the
\* value returned, and whether the nesting went beyond MaxLaunchDepth.  reload_ok is
\* what the reload returned (TRUE when none was started).
Launched(ctx, pending, launches, loaders, reload, reload_ok, fired, boot, result, cut) ==
  [ctx |-> ctx, pending |-> pending, launches |-> launches, loaders |-> loaders,
   reload |-> reload, reload_ok |-> reload_ok, fired |-> fired,
   boot |-> boot, result |-> result, cut |-> cut]

RECURSIVE LaunchTitle(_, _, _, _, _, _, _, _)
\* A LaunchTitle that records the launch of an IOS as pending before the reload.
LaunchTitle_IOSPending(ctx, pending, titles, title_id, skip_reload, reload_ok, boot_ok, depth) ==
  LET cleared == TitleContext_Clear(ctx)
      loader  == AccessContentDevice(cleared, "", titles, title_id)
  IN  IF IsSystemTitle(title_id) /\ title_id # TITLEID_SYSMENU
        THEN Launched(cleared, title_id, 1, 0, title_id, reload_ok, 0, 0, reload_ok, FALSE)
      ELSE IF ~loader.valid \/ ~loader.tmd.valid \/ ~loader.ticket.valid
        THEN Launched(cleared, pending, 1, 1, NoTitle, TRUE, 0, 0, FALSE, FALSE)
      ELSE IF ~skip_reload
        THEN IF depth = MaxLaunchDepth
               THEN Launched(cleared, title_id, 1, 1, NoTitle, TRUE, 0, 0, FALSE, TRUE)
               ELSE LET r == LaunchTitle(cleared, title_id, titles, loader.tmd.ios_id,
                                         FALSE, reload_ok, boot_ok, depth + 1)
                    IN  [r EXCEPT !.launches = r.launches + 1, !.loaders = r.loaders + 1]
      ELSE LET u == TitleContext_UpdateLoader(cleared, loader)
           IN  Launched(u.ctx, pending, 1, 1, NoTitle, TRUE, u.fired, 1, boot_ok, FALSE)

\* A LaunchTitle that treats the system menu as an IOS.
LaunchTitle_MenuAsIOS(ctx, pending, titles, title_id, skip_reload, reload_ok, boot_ok, depth) ==
  LET cleared == TitleContext_Clear(ctx)
      loader  == AccessContentDevice(cleared, "", titles, title_id)
  IN  IF IsSystemTitle(title_id)
        THEN Launched(cleared, pending, 1, 0, title_id, reload_ok, 0, 0, reload_ok, FALSE)
      ELSE IF ~loader.valid \/ ~loader.tmd.valid \/ ~loader.ticket.valid
        THEN Launched(cleared, pending, 1, 1, NoTitle, TRUE, 0, 0, FALSE, FALSE)
      ELSE IF ~skip_reload
        THEN IF depth = MaxLaunchDepth
               THEN Launched(cleared, title_id, 1, 1, NoTitle, TRUE, 0, 0, FALSE, TRUE)
               ELSE LET r == LaunchTitle(cleared, title_id, titles, loader.tmd.ios_id,
                                         FALSE, reload_ok, boot_ok, depth + 1)
                    IN  [r EXCEPT !.launches = r.launches + 1, !.loaders = r.loaders + 1]
      ELSE LET u == TitleContext_UpdateLoader(cleared, loader)
           IN  Launched(u.ctx, pending, 1, 1, NoTitle, TRUE, u.fired, 1, boot_ok, FALSE)

\* bool ES::LaunchTitle(u64 title_id, bool skip_reload), with LaunchIOS and
\* LaunchPPCTitle.  reload_ok is what IOS::HLE::Reload returns and boot_ok what
\* BootstrapPPC returns.
LaunchTitle(ctx, pending, titles, title_id, skip_reload, reload_ok, boot_ok, depth) ==
  LET cleared == TitleContext_Clear(ctx)
      \* the context is inactive here, so the loader is the installed title's
      loader  == AccessContentDevice(cleared, "", titles, title_id)
  IN  IF IsSystemTitle(title_id) /\ title_id # TITLEID_SYSMENU
        THEN Launched(cleared, pending, 1, 0, title_id, reload_ok, 0, 0, reload_ok, FALSE)
      ELSE IF ~loader.valid \/ ~loader.tmd.valid \/ ~loader.ticket.valid
        THEN Launched(cleared, pending, 1, 1, NoTitle, TRUE, 0, 0, FALSE, FALSE)
      ELSE IF ~skip_reload
        THEN IF depth = MaxLaunchDepth
               THEN Launched(cleared, title_id, 1, 1, NoTitle, TRUE, 0, 0, FALSE, TRUE)
               ELSE LET r == LaunchTitle(cleared, title_id, titles, loader.tmd.ios_id,
                                         FALSE, reload_ok, boot_ok, depth + 1)
                    IN  [r EXCEPT !.launches = r.launches + 1, !.loaders = r.loaders + 1]
      ELSE LET u == TitleContext_UpdateLoader(cleared, loader)
           IN  Launched(u.ctx, pending, 1, 1, NoTitle, TRUE, u.fired, 1, boot_ok, FALSE)

\* IOS::HLE::Reload: a reload that succeeds completes the command that asked for it
\* with one acknowledgement.
ReloadAcks(r) == IF r.reload # NoTitle /\ r.reload_ok THEN 1 ELSE 0

\* The record of a call in which LaunchTitle(title_id, skip_reload) ran.
LaunchCall(op, shape, ret, title_id, skip_reload, r) ==
  [Call(op, shape, ret) EXCEPT
     !.acks = ReloadAcks(r),
     !.title = title_id, !.skip = skip_reload, !.launches = r.launches,
     !.loaders = r.loaders, !.reload = r.reload,
     !.reload_ok = r.reload_ok, !.fired = r.fired, !.boot = r.boot,
     !.result = r.result, !.cut = r.cut]

\* An Init that launches the pending title without skipping the reload.
ES_Init_Reloads ==
  \E boot_ok \in BOOLEAN :
    LET r == LaunchTitle(NewTitleContext, s_title_to_launch, nand, s_title_to_launch,
                         FALSE, TRUE, boot_ok, 0)
    IN  /\ s_content_file' = ""
        /\ s_title_to_launch' = NoTitle
        /\ IF s_title_to_launch # NoTitle
             THEN /\ s_title_context' = r.ctx
                  /\ last' = LaunchCall("Init", <<0, 0>>, NoReturn, s_title_to_launch, FALSE, r)
                  /\ hist' = IF r.ctx.active THEN [NoHistory EXCEPT !.updates = 1]
                             ELSE NoHistory
             ELSE /\ s_title_context' = NewTitleContext
                  /\ last' = Call("Init", <<0, 0>>, NoReturn)
                  /\ hist' = NoHistory
        /\ UNCHANGED <<nand, es_vars, savestate>>

\* ES::Init
ES_Init ==
  \E boot_ok \in BOOLEAN :
    LET r == LaunchTitle(NewTitleContext, s_title_to_launch, nand, s_title_to_launch,
                         TRUE, TRUE, boot_ok, 0)
    IN  /\ s_content_file' = ""
        /\ s_title_to_launch' = NoTitle
        /\ IF s_title_to_launch # NoTitle
             THEN /\ s_title_context' = r.ctx
                  /\ last' = LaunchCall("Init", <<0, 0>>, NoReturn, s_title_to_launch, TRUE, r)
                  /\ hist' = IF r.ctx.active THEN [NoHistory EXCEPT !.updates = 1]
                             ELSE NoHistory
             ELSE /\ s_title_context' = NewTitleContext
                  /\ last' = Call("Init", <<0, 0>>, NoReturn)
                  /\ hist' = NoHistory
        /\ UNCHANGED <<nand, es_vars, savestate>>

\* TitleContext::Clear
Clear ==
  /\ s_title_context' = TitleContext_Clear(s_title_context)
  /\ last' = Call("Clear", <<0, 0>>, NoReturn)
  /\ hist' = HistClear(hist)
  /\ UNCHANGED <<s_content_file, s_title_to_launch, nand, es_vars, savestate>>

\* TitleContext::Update(tmd_, ticket_)
Update ==
  \E tmd_ \in TMDs, ticket_ \in Tickets :
    LET r == TitleContext_Update(s_title_context, tmd_, ticket_)
    IN  /\ s_title_context' = r.ctx
        /\ last' = [Call("Update", <<0, 0>>, NoReturn) EXCEPT
                      !.fired = r.fired, !.tmd = tmd_, !.ticket = ticket_,
                      !.ok = tmd_.valid /\ ticket_.valid]
        /\ hist' = HistUpdate(hist, s_title_context, tmd_, ticket_)
        /\ UNCHANGED <<s_content_file, s_title_to_launch, nand, es_vars, savestate>>

\* ES::LoadWAD: Update(content_loader) on the loader of the WAD file
LoadWAD(files) ==
  \E file \in files :
    LET loader == WadLoader(file)
        r == TitleContext_UpdateLoader(s_title_context, loader)
    IN  /\ s_content_file' = file
        /\ s_title_context' = r.ctx
        /\ last' = [Call("LoadWAD", <<0, 0>>, NoReturn) EXCEPT
                      !.fired = r.fired, !.tmd = loader.tmd, !.ticket = loader.ticket,
                      !.ok = loader.valid /\ loader.tmd.valid /\ loader.ticket.valid]
        /\ hist' = IF loader.valid
                     THEN HistUpdate(hist, s_title_context, loader.tmd, loader.ticket)
                     ELSE hist
        /\ UNCHANGED <<s_title_to_launch, nand, es_vars, savestate>>

\* ES::DoState, PointerWrap::MODE_WRITE
DoStateWrite ==
  /\ savestate' = Snapshot(TRUE, s_content_file, m_AccessIdentID, s_title_context,
                           m_addtitle_tmd, m_addtitle_content_id,
                           m_addtitle_content_buffer, m_export_title_context,
                           m_ContentAccessMap)
  /\ last' = Call("DoStateWrite", <<0, 0>>, NoReturn)
  /\ UNCHANGED <<s_title_context, s_content_file, s_title_to_launch, nand, es_vars, hist>>

\* ES::DoState, PointerWrap::MODE_READ
DoStateRead ==
  /\ savestate.present
  /\ LET ctx == TitleContext_DoStateRead(s_title_context, savestate.s_title_context)
     IN  /\ s_content_file' = savestate.s_content_file
         /\ m_AccessIdentID' = savestate.m_AccessIdentID
         /\ s_title_context' = ctx
         /\ m_addtitle_tmd' = savestate.m_addtitle_tmd
         /\ m_addtitle_content_id' = savestate.m_addtitle_content_id
         /\ m_addtitle_content_buffer' = savestate.m_addtitle_content_buffer
         /\ m_export_title_context' = savestate.m_export_title_context
         /\ m_ContentAccessMap' =
              ReopenContents(m_ContentAccessMap, ctx, savestate.s_content_file, nand,
                             savestate.m_ContentAccessMap)
  /\ last' = Call("DoStateRead", <<0, 0>>, NoReturn)
  /\ UNCHANGED <<s_title_to_launch, nand, session_root, savestate, hist, stm_vars>>

(***************************************************************************)
(* Content access table: OpenTitleContent, OpenContent, ReadContent,       *)
(* SeekContent, CloseContent and the device's Close.                       *)
(***************************************************************************)
\* The largest value of m_AccessIdentID the model lets the service reach.
MaxCFD == 2

\* The same, where every size, offset and mode is tried.
MaxReadCFD == 1

\* The largest position (besides 0xffffffff) the model lets a seek reach.
MaxPos == 4

\* Values a caller sends: title ids, content indices, sizes, seek offsets.
OpenTitles == {GameA, GameB, ChannelC}

IndexVals == {U(0), U(2), <<1, 0>>}

SizeVals == {U(0), U(1), U(2), U(5), InvalidCFD}

AddrVals == {U(0), U(1), U(4), InvalidCFD}

ModeVals == {0, 1, 2, 3}

PosVals == {U(n) : n \in 0..MaxPos} \cup {InvalidCFD}

\* ES::ReadContent on an open entry: the entry afterwards and the size returned.
ES_ReadContent(rContent, Size, pDest) ==
  LET limit == U(rContent.m_content.size)
      Size_ == IF Gt32(Add32(rContent.m_position, Size), limit)
                 THEN Sub32(limit, rContent.m_position)
                 ELSE Size
  IN  [content |-> IF Size_ # U(0) /\ pDest
                     THEN [rContent EXCEPT !.m_position = Add32(rContent.m_position, Size_)]
                     ELSE rContent,
       size |-> Size_]

\* ES::SeekContent on an open entry: the entry afterwards.
ES_SeekContent(rContent, Addr, Mode) ==
  CASE Mode = 0 -> [rContent EXCEPT !.m_position = Addr]
    [] Mode = 1 -> [rContent EXCEPT !.m_position = Add32(rContent.m_position, Addr)]
    [] Mode = 2 -> [rContent EXCEPT !.m_position = Add32(U(rContent.m_content.size), Addr)]
    [] OTHER -> rContent

\* A CloseContent that drops every entry.
ES_CloseContent_DropsAll(map, CFD) ==
  IF CFD \notin DOMAIN map
    THEN [map |-> map, ret |-> Value(InvalidCFD)]
    ELSE [map |-> EmptyMap, ret |-> IPC_SUCCESS]

\* ES::CloseContent on the table: the table afterwards and the reply.
ES_CloseContent(map, CFD) ==
  IF CFD \notin DOMAIN map
    THEN [map |-> map, ret |-> Value(InvalidCFD)]
    ELSE [map |-> [k \in DOMAIN map \ {CFD} |-> map[k]], ret |-> IPC_SUCCESS]

ctx_vars == <<s_title_context, s_content_file, s_title_to_launch, nand, savestate, hist,
              stm_vars>>

import_vars == <<m_addtitle_tmd, m_addtitle_content_id, m_addtitle_content_buffer,
                 session_root>>

\* IOCTL_ES_OPENTITLECONTENT; the model stops opening when m_AccessIdentID = cap.
IOCtlV_OpenTitleContent(cap) ==
  \E shape \in ShapesFor(3, 0) :
    IF ~HasNumberOfValidVectors(shape, 3, 0)
      THEN /\ last' = Call("OpenTitleContent", shape, ES_PARAMETER_SIZE_OR_ALIGNMENT)
           /\ UNCHANGED <<ctx_vars, es_vars>>
      ELSE \E TitleID \in OpenTitles, Index \in IndexVals :
             /\ m_AccessIdentID < cap
             /\ LET r == OpenTitleContent(m_ContentAccessMap, s_title_context,
                                          s_content_file, nand, m_AccessIdentID,
                                          TitleID, Trunc16(Index))
                IN  /\ m_ContentAccessMap' = r.map
                    /\ m_AccessIdentID' = m_AccessIdentID + 1
                    /\ last' = [Call("OpenTitleContent", shape, Value(r.cfd)) EXCEPT
                                  !.title = TitleID, !.x = Index]
             /\ UNCHANGED <<ctx_vars, import_vars, m_export_title_context>>

\* IOCTL_ES_OPENCONTENT
IOCtlV_OpenContent(cap) ==
  \E shape \in ShapesFor(1, 0) :
    IF ~HasNumberOfValidVectors(shape, 1, 0) \/ ~s_title_context.active
      THEN /\ last' = Call("OpenContent", shape, ES_PARAMETER_SIZE_OR_ALIGNMENT)
           /\ UNCHANGED <<ctx_vars, es_vars>>
      ELSE \E Index \in IndexVals :
             /\ m_AccessIdentID < cap
             /\ LET r == OpenTitleContent(m_ContentAccessMap, s_title_context,
                                          s_content_file, nand, m_AccessIdentID,
                                          s_title_context.tmd.title_id, Trunc16(Index))
                IN  /\ m_ContentAccessMap' = r.map
                    /\ m_AccessIdentID' = m_AccessIdentID + 1
                    /\ last' = [Call("OpenContent", shape, Value(r.cfd)) EXCEPT
                                  !.title = s_title_context.tmd.title_id, !.x = Index]
             /\ UNCHANGED <<ctx_vars, import_vars, m_export_title_context>>

\* IOCTL_ES_READCONTENT
IOCtlV_ReadContent(cfds, sizes) ==
  /\ \E shape \in ShapesFor(1, 1) :
       IF ~HasNumberOfValidVectors(shape, 1, 1)
         THEN /\ last' = Call("ReadContent", shape, ES_PARAMETER_SIZE_OR_ALIGNMENT)
              /\ UNCHANGED m_ContentAccessMap
         ELSE \E CFD \in cfds, Size \in sizes, pDest \in BOOLEAN :
                IF CFD \notin DOMAIN m_ContentAccessMap
                  THEN /\ last' = [Call("ReadContent", shape, Value(InvalidCFD)) EXCEPT
                                     !.cfd = CFD]
                       /\ UNCHANGED m_ContentAccessMap
                  ELSE LET r == ES_ReadContent(m_ContentAccessMap[CFD], Size, pDest)
                       IN  /\ m_ContentAccessMap' =
                                [m_ContentAccessMap EXCEPT ![CFD] = r.content]
                           /\ last' = [Call("ReadContent", shape, Value(r.size)) EXCEPT
                                         !.cfd = CFD, !.ok = pDest]
  /\ UNCHANGED <<ctx_vars, m_AccessIdentID, import_vars, m_export_title_context>>

\* IOCTL_ES_SEEKCONTENT; the model keeps the position inside PosVals.
IOCtlV_SeekContent(cfds, addrs, modes) ==
  /\ \E shape \in ShapesFor(3, 0) :
       IF ~HasNumberOfValidVectors(shape, 3, 0)
         THEN /\ last' = Call("SeekContent", shape, ES_PARAMETER_SIZE_OR_ALIGNMENT)
              /\ UNCHANGED m_ContentAccessMap
         ELSE \E CFD \in cfds, Addr \in addrs, Mode \in modes :
                IF CFD \notin DOMAIN m_ContentAccessMap
                  THEN /\ last' = [Call("SeekContent", shape, Value(InvalidCFD)) EXCEPT
                                     !.cfd = CFD]
                       /\ UNCHANGED m_ContentAccessMap
                  ELSE LET r == ES_SeekContent(m_ContentAccessMap[CFD], Addr, Mode)
                       IN  /\ r.m_position \in PosVals
                           /\ m_ContentAccessMap' = [m_ContentAccessMap EXCEPT ![CFD] = r]
                           /\ last' = [Call("SeekContent", shape, Value(r.m_position))
                                         EXCEPT !.cfd = CFD]
  /\ UNCHANGED <<ctx_vars, m_AccessIdentID, import_vars, m_export_title_context>>

\* IOCTL_ES_CLOSECONTENT
IOCtlV_CloseContent(cfds) ==
  /\ \E shape \in ShapesFor(1, 0) :
       IF ~HasNumberOfValidVectors(shape, 1, 0)
         THEN /\ last' = Call("CloseContent", shape, ES_PARAMETER_SIZE_OR_ALIGNMENT)
              /\ UNCHANGED m_ContentAccessMap
         ELSE \E CFD \in cfds :
                LET r == ES_CloseContent(m_ContentAccessMap, CFD)
                IN  /\ m_ContentAccessMap' = r.map
                    /\ last' = [Call("CloseContent", shape, r.ret) EXCEPT !.cfd = CFD]
  /\ UNCHANGED <<ctx_vars, m_AccessIdentID, import_vars, m_export_title_context>>

\* ES::Close
ES_Close ==
  /\ m_ContentAccessMap' = EmptyMap
  /\ m_AccessIdentID' = 0
  /\ last' = Call("Close", <<0, 0>>, NoReturn)
  /\ UNCHANGED <<ctx_vars, import_vars, m_export_title_context>>

\* The table as a whole: opens by both paths, short reads and seeks, closes.
NextContent ==
  \/ LoadWAD({"b.wad"})
  \/ IOCtlV_OpenTitleContent(MaxCFD)
  \/ IOCtlV_OpenContent(MaxCFD)
  \/ IOCtlV_ReadContent(0..MaxCFD, {U(1)})
  \/ IOCtlV_SeekContent(0..MaxCFD, {U(1)}, {0})
  \/ IOCtlV_CloseContent(0..MaxCFD)
  \/ ES_Close

SpecContent == Init /\ [][NextContent]_vars

\* Reading and seeking, with every size, offset and mode.
NextRead ==
  \/ LoadWAD({"b.wad"})
  \/ IOCtlV_OpenTitleContent(MaxReadCFD)
  \/ IOCtlV_OpenContent(MaxReadCFD)
  \/ IOCtlV_ReadContent(0..MaxReadCFD, SizeVals)
  \/ IOCtlV_SeekContent(0..MaxReadCFD, AddrVals, ModeVals)
  \/ IOCtlV_CloseContent(0..MaxReadCFD)
  \/ ES_Close

SpecRead == Init /\ [][NextRead]_vars

\* The table under save and restore of the state.
NextSave ==
  \/ IOCtlV_OpenTitleContent(MaxCFD)
  \/ IOCtlV_SeekContent(0..MaxCFD, {U(1)}, {0})
  \/ IOCtlV_CloseContent(0..MaxCFD)
  \/ ES_Close
  \/ DoStateWrite
  \/ DoStateRead

SpecSave == Init /\ [][NextSave]_vars

(***************************************************************************)
(* Title import and export sessions                                        *)
(***************************************************************************)
\* Longest byte accumulator the model lets AddContentData build.
MaxBuffer == 2

\* Content ids and data a caller passes to the import handlers.
ContentIdVals == {U(7), U(9), InvalidCFD}

DataVals == {<<1>>, <<1, 1>>}

ImportTitles == {GameA, GameB}

ExportTitles == {GameA, GameB, ChannelC, ChannelD}

access_vars == <<m_ContentAccessMap, m_AccessIdentID>>

title_vars == <<s_title_context, s_content_file, s_title_to_launch, nand, savestate, hist,
                stm_vars>>

\* Files under the session root: the TMD of a title, a content of a title, and a
\* title's entry in uid.sys.
TMDFile(title_id) == [kind |-> "tmd", title |-> title_id, id |-> U(0)]

ContentFile(title_id, content_id) == [kind |-> "app", title |-> title_id, id |-> content_id]

UidEntry(title_id) == [kind |-> "uid", title |-> title_id, id |-> U(0)]

\* TMDReader::GetContents: the contents a valid TMD lists.
TMDContents(tmd) ==
  IF ~tmd.valid THEN {}
  ELSE IF tmd.title_id = GameB THEN WadLoader("b.wad").contents
  ELSE IF tmd.title_id \in DOMAIN InstalledTitles THEN InstalledTitles[tmd.title_id].contents
  ELSE {}

\* TMDReader::FindContentById: the contents of the TMD with that id (none: false)
FindContentById(tmd, id) == { c \in TMDContents(tmd) : U(c.id) = id }

\* DiscIO::FindSignedTicket: the ticket installed for the title, else an invalid one.
FindSignedTicket(titles, title_id) ==
  IF title_id \in DOMAIN titles THEN titles[title_id].ticket ELSE EmptyTicket

\* WriteTMD: the files afterwards and whether the write succeeded (io_ok is the
\* result of File::IOFile::WriteBytes).
WriteTMD(files, tmd, io_ok) ==
  [files |-> IF io_ok THEN files \cup {TMDFile(tmd.title_id)} ELSE files, ok |-> io_ok]

\* ES::AddTMD for a caller that passes one of tmds.
AddTMD(tmds) ==
  /\ \E shape \in ShapesFor(1, 0) :
       IF ~HasNumberOfValidVectors(shape, 1, 0)
         THEN /\ last' = Call("AddTMD", shape, ES_PARAMETER_SIZE_OR_ALIGNMENT)
              /\ UNCHANGED <<m_addtitle_tmd, session_root>>
         ELSE \E tmd \in tmds :
                /\ m_addtitle_tmd' = tmd
                /\ IF ~tmd.valid
                     THEN /\ last' = [Call("AddTMD", shape, ES_INVALID_TMD) EXCEPT !.tmd = tmd]
                          /\ UNCHANGED session_root
                     ELSE \E io_ok \in BOOLEAN :
                            LET w == WriteTMD(session_root, tmd, io_ok)
                            IN  /\ session_root' = w.files
                                /\ last' = [Call("AddTMD", shape,
                                                 IF w.ok THEN IPC_SUCCESS ELSE ES_WRITE_FAILURE)
                                              EXCEPT !.tmd = tmd]
  /\ UNCHANGED <<title_vars, access_vars, m_addtitle_content_id,
                 m_addtitle_content_buffer, m_export_title_context>>

\* IOCTL_ES_ADDTMD
IOCtlV_AddTMD == AddTMD(TMDs)

\* IOCTL_ES_ADDTITLESTART
IOCtlV_AddTitleStart ==
  /\ \E shape \in ShapesFor(4, 0) :
       IF ~HasNumberOfValidVectors(shape, 4, 0)
         THEN /\ last' = Call("AddTitleStart", shape, ES_PARAMETER_SIZE_OR_ALIGNMENT)
              /\ UNCHANGED <<m_addtitle_tmd, session_root>>
         ELSE \E tmd \in TMDs :
                /\ m_addtitle_tmd' = tmd
                /\ IF ~tmd.valid
                     THEN /\ last' = [Call("AddTitleStart", shape, ES_INVALID_TMD)
                                        EXCEPT !.tmd = tmd]
                          /\ UNCHANGED session_root
                     ELSE \E io_ok \in BOOLEAN :
                            LET w == WriteTMD(session_root, tmd, io_ok)
                            IN  IF ~w.ok
                                  THEN /\ session_root' = w.files
                                       /\ last' = [Call("AddTitleStart", shape, ES_WRITE_FAILURE)
                                                     EXCEPT !.tmd = tmd]
                                  ELSE /\ session_root' = w.files \cup {UidEntry(tmd.title_id)}
                                       /\ last' = [Call("AddTitleStart", shape, IPC_SUCCESS)
                                                     EXCEPT !.tmd = tmd]
  /\ UNCHANGED <<title_vars, access_vars, m_addtitle_content_id,
                 m_addtitle_content_buffer, m_export_title_context>>

ES_AddContentStart_Restarts(pending_id, buffer, tmd, content_id) ==
  [content_id |-> content_id, buffer |-> << >>,
   ret |-> IF pending_id # InvalidCFD THEN ES_WRITE_FAILURE
           ELSE IF ~tmd.valid THEN ES_PARAMETER_SIZE_OR_ALIGNMENT ELSE Value(U(0))]

\* ES::AddContentStart once the vector counts are accepted: the pending content
\* id and the accumulator afterwards, and the reply.
ES_AddContentStart(pending_id, buffer, tmd, content_id) ==
  IF pending_id # InvalidCFD
    THEN [content_id |-> pending_id, buffer |-> buffer, ret |-> ES_WRITE_FAILURE]
    ELSE [content_id |-> content_id, buffer |-> << >>,
          ret |-> IF ~tmd.valid THEN ES_PARAMETER_SIZE_OR_ALIGNMENT ELSE Value(U(0))]

\* IOCTL_ES_ADDCONTENTSTART
IOCtlV_AddContentStart ==
  /\ \E shape \in ShapesFor(2, 0) :
       IF ~HasNumberOfValidVectors(shape, 2, 0)
         THEN /\ last' = Call("AddContentStart", shape, ES_PARAMETER_SIZE_OR_ALIGNMENT)
              /\ UNCHANGED <<m_addtitle_content_id, m_addtitle_content_buffer>>
         ELSE \E title_id \in ImportTitles, content_id \in ContentIdVals :
                LET r == ES_AddContentStart(m_addtitle_content_id, m_addtitle_content_buffer,
                                            m_addtitle_tmd, content_id)
                IN  /\ m_addtitle_content_id' = r.content_id
                    /\ m_addtitle_content_buffer' = r.buffer
                    /\ last' = [Call("AddContentStart", shape, r.ret) EXCEPT
                                  !.title = title_id, !.x = content_id]
  /\ UNCHANGED <<title_vars, access_vars, m_addtitle_tmd, session_root,
                 m_export_title_context>>

\* IOCTL_ES_ADDCONTENTDATA
IOCtlV_AddContentData ==
  /\ \E shape \in ShapesFor(2, 0) :
       IF ~HasNumberOfValidVectors(shape, 2, 0)
         THEN /\ last' = Call("AddContentData", shape, ES_PARAMETER_SIZE_OR_ALIGNMENT)
              /\ UNCHANGED m_addtitle_content_buffer
         ELSE \E data \in DataVals :
                /\ Len(m_addtitle_content_buffer) + Len(data) <= MaxBuffer
                /\ m_addtitle_content_buffer' = m_addtitle_content_buffer \o data
                /\ last' = Call("AddContentData", shape, IPC_SUCCESS)
  /\ UNCHANGED <<title_vars, access_vars, m_addtitle_tmd, m_addtitle_content_id,
                 session_root, m_export_title_context>>

ES_AddContentFinish_SkipsTicket(tmd, pending_id, files, titles) ==
  LET found == FindContentById(tmd, pending_id)
  IN  IF ~tmd.valid
        THEN [content_id |-> pending_id, files |-> files,
              ret |-> ES_PARAMETER_SIZE_OR_ALIGNMENT]
        ELSE IF found = {}
          THEN [content_id |-> pending_id, files |-> files, ret |-> ES_INVALID_TMD]
          ELSE [content_id |-> InvalidCFD,
                files |-> files \cup {ContentFile(tmd.title_id, pending_id)},
                ret |-> IPC_SUCCESS]

ES_AddContentFinish_KeepsId(tmd, pending_id, files, titles) ==
  LET ticket == FindSignedTicket(titles, tmd.title_id)
      found  == FindContentById(tmd, pending_id)
  IN  IF ~tmd.valid
        THEN [content_id |-> pending_id, files |-> files,
              ret |-> ES_PARAMETER_SIZE_OR_ALIGNMENT]
        ELSE IF ~ticket.valid
          THEN [content_id |-> pending_id, files |-> files, ret |-> ES_NO_TICKET_INSTALLED]
          ELSE IF found = {}
            THEN [content_id |-> pending_id, files |-> files, ret |-> ES_INVALID_TMD]
            ELSE [content_id |-> pending_id,
                  files |-> files \cup {ContentFile(tmd.title_id, pending_id)},
                  ret |-> IPC_SUCCESS]

\* ES::AddContentFinish once the vector counts are accepted: the pending content id
\* and the files afterwards, and the reply.  The file is written with the size the
\* TMD declares for the content; the accumulator is left as it is.
ES_AddContentFinish(tmd, pending_id, files, titles) ==
  LET ticket == FindSignedTicket(titles, tmd.title_id)
      found  == FindContentById(tmd, pending_id)
  IN  IF ~tmd.valid
        THEN [content_id |-> pending_id, files |-> files,
              ret |-> ES_PARAMETER_SIZE_OR_ALIGNMENT]
        ELSE IF ~ticket.valid
          THEN [content_id |-> pending_id, files |-> files, ret |-> ES_NO_TICKET_INSTALLED]
          ELSE IF found = {}
            THEN [content_id |-> pending_id, files |-> files, ret |-> ES_INVALID_TMD]
            ELSE [content_id |-> InvalidCFD,
                  files |-> files \cup {ContentFile(tmd.title_id, pending_id)},
                  ret |-> IPC_SUCCESS]

\* IOCTL_ES_ADDCONTENTFINISH
IOCtlV_AddContentFinish ==
  /\ \E shape \in ShapesFor(1, 0) :
       IF ~HasNumberOfValidVectors(shape, 1, 0)
         THEN /\ last' = Call("AddContentFinish", shape, ES_PARAMETER_SIZE_OR_ALIGNMENT)
              /\ UNCHANGED <<m_addtitle_content_id, session_root>>
         ELSE LET r == ES_AddContentFinish(m_addtitle_tmd, m_addtitle_content_id,
                                           session_root, nand)
              IN  /\ m_addtitle_content_id' = r.content_id
                  /\ session_root' = r.files
                  /\ last' = IF r.ret = IPC_SUCCESS
                               THEN [Call("AddContentFinish", shape, r.ret) EXCEPT
                                       !.title = m_addtitle_tmd.title_id,
                                       !.x = m_addtitle_content_id]
                               ELSE Call("AddContentFinish", shape, r.ret)
  /\ UNCHANGED <<title_vars, access_vars, m_addtitle_tmd, m_addtitle_content_buffer,
                 m_export_title_context>>

ES_AddTitleFinish_KeepsTMD(tmd, shape) ==
  IF ~HasNumberOfValidVectors(shape, 0, 0) \/ ~tmd.valid
    THEN [tmd |-> tmd, ret |-> ES_PARAMETER_SIZE_OR_ALIGNMENT]
    ELSE [tmd |-> tmd, ret |-> IPC_SUCCESS]

\* ES::AddTitleFinish: the pending TMD afterwards and the reply.
ES_AddTitleFinish(tmd, shape) ==
  IF ~HasNumberOfValidVectors(shape, 0, 0) \/ ~tmd.valid
    THEN [tmd |-> tmd, ret |-> ES_PARAMETER_SIZE_OR_ALIGNMENT]
    ELSE [tmd |-> EmptyTMD, ret |-> IPC_SUCCESS]

\* IOCTL_ES_ADDTITLEFINISH
IOCtlV_AddTitleFinish ==
  /\ \E shape \in ShapesFor(0, 0) :
       LET r == ES_AddTitleFinish(m_addtitle_tmd, shape)
       IN  /\ m_addtitle_tmd' = r.tmd
           /\ last' = Call("AddTitleFinish", shape, r.ret)
  /\ UNCHANGED <<title_vars, access_vars, m_addtitle_content_id,
                 m_addtitle_content_buffer, session_root, m_export_title_context>>

\* An ExportTitleInit that starts a new session over a valid one.
ES_ExportTitleInit_Nested(export, loader, titles, io_size_ok) ==
  LET with_tmd == [export EXCEPT !.tmd = loader.tmd]
      ticket   == FindSignedTicket(titles, loader.tmd.title_id)
      with_key == [with_tmd EXCEPT !.title_key = ticket.title_id]
  IN  IF ~loader.valid THEN [export |-> export, ret |-> FS_ENOENT]
      ELSE IF ~loader.tmd.valid THEN [export |-> export, ret |-> ES_INVALID_TMD]
      ELSE IF ~ticket.valid THEN [export |-> with_tmd, ret |-> ES_NO_TICKET_INSTALLED]
      ELSE IF ticket.title_id # loader.tmd.title_id
        THEN [export |-> with_tmd, ret |-> ES_PARAMETER_SIZE_OR_ALIGNMENT]
      ELSE IF ~io_size_ok THEN [export |-> with_key, ret |-> ES_PARAMETER_SIZE_OR_ALIGNMENT]
      ELSE [export |-> [with_key EXCEPT !.valid = TRUE], ret |-> IPC_SUCCESS]

\* ES::ExportTitleInit once the vector counts and the size of the title id are
\* accepted: the export session afterwards and the reply.  io_size_ok says whether
\* the output vector has the size of the raw TMD.
ES_ExportTitleInit(export, loader, titles, io_size_ok) ==
  LET with_tmd == [export EXCEPT !.tmd = loader.tmd]
      ticket   == FindSignedTicket(titles, loader.tmd.title_id)
      with_key == [with_tmd EXCEPT !.title_key = ticket.title_id]
  IN  IF export.valid THEN [export |-> export, ret |-> ES_PARAMETER_SIZE_OR_ALIGNMENT]
      ELSE IF ~loader.valid THEN [export |-> export, ret |-> FS_ENOENT]
      ELSE IF ~loader.tmd.valid THEN [export |-> export, ret |-> ES_INVALID_TMD]
      ELSE IF ~ticket.valid THEN [export |-> with_tmd, ret |-> ES_NO_TICKET_INSTALLED]
      ELSE IF ticket.title_id # loader.tmd.title_id
        THEN [export |-> with_tmd, ret |-> ES_PARAMETER_SIZE_OR_ALIGNMENT]
      ELSE IF ~io_size_ok THEN [export |-> with_key, ret |-> ES_PARAMETER_SIZE_OR_ALIGNMENT]
      ELSE [export |-> [with_key EXCEPT !.valid = TRUE], ret |-> IPC_SUCCESS]

\* IOCTL_ES_EXPORTTITLEINIT
IOCtlV_ExportTitleInit ==
  /\ \E shape \in ShapesFor(1, 1), in_size_ok \in BOOLEAN :
       IF ~HasNumberOfValidVectors(shape, 1, 1) \/ ~in_size_ok
         THEN /\ last' = [Call("ExportTitleInit", shape, ES_PARAMETER_SIZE_OR_ALIGNMENT)
                            EXCEPT !.ok = in_size_ok]
              /\ UNCHANGED m_export_title_context
         ELSE \E title_id \in ExportTitles, io_size_ok \in BOOLEAN :
                LET loader == AccessContentDevice(s_title_context, s_content_file, nand,
                                                  title_id)
                    r == ES_ExportTitleInit(m_export_title_context, loader, nand, io_size_ok)
                IN  /\ m_export_title_context' = r.export
                    /\ last' = [Call("ExportTitleInit", shape, r.ret) EXCEPT
                                  !.title = title_id]
  /\ UNCHANGED <<title_vars, access_vars, import_vars>>

\* IOCTL_ES_EXPORTTITLEDONE: the handler does not look at the vectors.
IOCtlV_ExportTitleDone ==
  /\ \E shape \in ShapesFor(0, 0) :
       IF ~m_export_title_context.valid
         THEN /\ last' = Call("ExportTitleDone", shape, ES_PARAMETER_SIZE_OR_ALIGNMENT)
              /\ UNCHANGED m_export_title_context
         ELSE /\ m_export_title_context' = [m_export_title_context EXCEPT !.valid = FALSE]
              /\ last' = Call("ExportTitleDone", shape, IPC_SUCCESS)
  /\ UNCHANGED <<title_vars, access_vars, import_vars>>

\* Most export streams the model opens at a time.
MaxExport == 2

\* Content ids, export-content-ids and output sizes a caller passes.
ExportContentIdVals == {U(5), U(7), U(8), U(9)}

ExportSizeVals == {1, 2, 5, 32}

\* CNANDContentLoader::GetContentByID: the contents with that id (none: nullptr)
GetContentByID(loader, id) == { c \in loader.contents : U(c.id) = id }

\* The IV of a newly constructed export stream: its first two bytes, the fourteen
\* that follow, and whether the cipher has replaced it with its chaining state.
NewExportIV == [b0 |-> 0, b1 |-> 0, rest |-> 0, chained |-> FALSE]

\* The IV ExportContentBegin gives a stream: the content's index, big-endian.
ExportIV(index) ==
  [NewExportIV EXCEPT !.b0 = (index \div 256) % 256, !.b1 = index % 256]

ExportContent(content, iv) == [content |-> content, iv |-> iv]

\* The first export-content-id, scanning up from cid, that is not in use.
RECURSIVE FirstUnused(_, _)
FirstUnused(contents, cid) ==
  IF cid \in DOMAIN contents THEN FirstUnused(contents, cid + 1) ELSE cid

\* An ExportContentBegin that numbers the streams by how many are open.
ES_ExportContentBegin_Counts(export, loader, title_id, content_id) ==
  LET found == GetContentByID(loader, content_id)
  IN  IF ~export.valid \/ export.tmd.title_id # title_id
        THEN [export |-> export, ret |-> ES_PARAMETER_SIZE_OR_ALIGNMENT]
      ELSE IF ~loader.valid THEN [export |-> export, ret |-> FS_ENOENT]
      ELSE IF found = {} THEN [export |-> export, ret |-> ES_PARAMETER_SIZE_OR_ALIGNMENT]
      ELSE LET content == CHOOSE c \in found : TRUE
               entry   == OpenedContent(title_id, content, U(0))
               cid     == Cardinality(DOMAIN export.contents)
           IN  [export |-> [export EXCEPT !.contents =
                              [k \in DOMAIN export.contents \cup {cid} |->
                                 IF k = cid THEN ExportContent(entry, ExportIV(content.index))
                                 ELSE export.contents[k]]],
                ret |-> Value(U(cid))]

\* ES::ExportContentBegin once the vector counts and sizes are accepted: the export
\* session afterwards and the reply.
ES_ExportContentBegin(export, loader, title_id, content_id) ==
  LET found == GetContentByID(loader, content_id)
  IN  IF ~export.valid \/ export.tmd.title_id # title_id
        THEN [export |-> export, ret |-> ES_PARAMETER_SIZE_OR_ALIGNMENT]
      ELSE IF ~loader.valid THEN [export |-> export, ret |-> FS_ENOENT]
      ELSE IF found = {} THEN [export |-> export, ret |-> ES_PARAMETER_SIZE_OR_ALIGNMENT]
      ELSE LET content == CHOOSE c \in found : TRUE
               entry   == OpenedContent(title_id, content, U(0))
               cid     == FirstUnused(export.contents, 0)
           IN  [export |-> [export EXCEPT !.contents =
                              [k \in DOMAIN export.contents \cup {cid} |->
                                 IF k = cid THEN ExportContent(entry, ExportIV(content.index))
                                 ELSE export.contents[k]]],
                ret |-> Value(U(cid))]

\* IOCTL_ES_EXPORTCONTENTBEGIN; sizes_ok says whether the two input vectors have 8
\* and 4 bytes.
IOCtlV_ExportContentBegin ==
  /\ \E shape \in ShapesFor(2, 0), sizes_ok \in BOOLEAN :
       IF ~HasNumberOfValidVectors(shape, 2, 0) \/ ~sizes_ok
         THEN /\ last' = [Call("ExportContentBegin", shape, ES_PARAMETER_SIZE_OR_ALIGNMENT)
                            EXCEPT !.ok = sizes_ok]
              /\ UNCHANGED m_export_title_context
         ELSE \E title_id \in ExportTitles, content_id \in ExportContentIdVals :
                LET loader == AccessContentDevice(s_title_context, s_content_file, nand,
                                                  title_id)
                    r == ES_ExportContentBegin(m_export_title_context, loader, title_id,
                                               content_id)
                IN  /\ Cardinality(DOMAIN m_export_title_context.contents) < MaxExport
                    /\ m_export_title_context' = r.export
                    /\ last' = [Call("ExportContentBegin", shape, r.ret) EXCEPT
                                  !.title = title_id, !.x = content_id]
  /\ UNCHANGED <<title_vars, access_vars, import_vars>>

\* Common::AlignUp(value, size): the least multiple of size that is not below value.
AlignUp(value, size) == ((value + size - 1) \div size) * size

\* An ExportContentData that adds the size of the output vector to the position.
ES_ExportContentData_NoClamp(export, cid, bytes_to_read, io_ok) ==
  IF ~export.valid \/ cid \notin DOMAIN export.contents
    THEN [export |-> export, ret |-> ES_PARAMETER_SIZE_OR_ALIGNMENT, written |-> 0]
  ELSE LET metadata == export.contents[cid].content
       IN  IF ~Gt32(U(metadata.m_content.size), metadata.m_position)
             THEN [export |-> export, ret |-> ES_PARAMETER_SIZE_OR_ALIGNMENT, written |-> 0]
           ELSE IF ~io_ok
             THEN [export |-> export, ret |-> ES_READ_LESS_DATA_THAN_EXPECTED, written |-> 0]
           ELSE [export |-> [export EXCEPT
                               !.contents[cid].iv.chained = TRUE,
                               !.contents[cid].content.m_position =
                                  Add32(metadata.m_position, U(bytes_to_read))],
                 ret |-> IPC_SUCCESS, written |-> AlignUp(bytes_to_read, 32)]

\* ES::ExportContentData once the vector counts and sizes are accepted.  io_ok is
\* what GetRange returns; the cipher leaves its chaining state in the stream's IV.
\* written is the number of bytes CopyToEmu puts at the address of the output
\* vector: the size of the buffer after it was resized to a multiple of 32 (the
\* lengths of the model are below 2^16).
ES_ExportContentData(export, cid, bytes_to_read, io_ok) ==
  IF ~export.valid \/ cid \notin DOMAIN export.contents
    THEN [export |-> export, ret |-> ES_PARAMETER_SIZE_OR_ALIGNMENT, written |-> 0]
  ELSE LET metadata  == export.contents[cid].content
           remaining == Sub32(U(metadata.m_content.size), metadata.m_position)
           length    == IF Gt32(remaining, U(bytes_to_read)) THEN U(bytes_to_read)
                        ELSE remaining
       IN  IF ~Gt32(U(metadata.m_content.size), metadata.m_position)
             THEN [export |-> export, ret |-> ES_PARAMETER_SIZE_OR_ALIGNMENT, written |-> 0]
           ELSE IF ~io_ok
             THEN [export |-> export, ret |-> ES_READ_LESS_DATA_THAN_EXPECTED, written |-> 0]
           ELSE [export |-> [export EXCEPT
                               !.contents[cid].iv.chained = TRUE,
                               !.contents[cid].content.m_position =
                                  Add32(metadata.m_position, length)],
                 ret |-> IPC_SUCCESS, written |-> AlignUp(length[2], 32)]

\* IOCTL_ES_EXPORTCONTENTDATA; sizes_ok says whether the input vector has 4 bytes
\* and the output vector is not empty; bytes_to_read is the size of the output
\* vector.
IOCtlV_ExportContentData ==
  /\ \E shape \in ShapesFor(1, 1), sizes_ok \in BOOLEAN :
       IF ~HasNumberOfValidVectors(shape, 1, 1) \/ ~sizes_ok
         THEN /\ last' = [Call("ExportContentData", shape, ES_PARAMETER_SIZE_OR_ALIGNMENT)
                            EXCEPT !.ok = sizes_ok]
              /\ UNCHANGED m_export_title_context
         ELSE \E cid \in 0..MaxExport, bytes_to_read \in ExportSizeVals, io_ok \in BOOLEAN :
                LET r == ES_ExportContentData(m_export_title_context, cid, bytes_to_read,
                                              io_ok)
                IN  /\ m_export_title_context' = r.export
                    /\ last' = [Call("ExportContentData", shape, r.ret) EXCEPT
                                  !.cfd = cid, !.x = U(bytes_to_read), !.io = io_ok,
                                  !.written = r.written]
  /\ UNCHANGED <<title_vars, access_vars, import_vars>>

\* An ExportContentEnd that closes a stream wherever its position is.
ES_ExportContentEnd_Anywhere(export, cid) ==
  IF ~export.valid \/ cid \notin DOMAIN export.contents
    THEN [export |-> export, ret |-> ES_PARAMETER_SIZE_OR_ALIGNMENT]
    ELSE [export |-> [export EXCEPT !.contents =
                        [k \in DOMAIN export.contents \ {cid} |-> export.contents[k]]],
          ret |-> IPC_SUCCESS]

\* ES::ExportContentEnd once the vector counts and sizes are accepted.
ES_ExportContentEnd(export, cid) ==
  IF \/ ~export.valid
     \/ cid \notin DOMAIN export.contents
    THEN [export |-> export, ret |-> ES_PARAMETER_SIZE_OR_ALIGNMENT]
  ELSE IF export.contents[cid].content.m_position
            # U(export.contents[cid].content.m_content.size)
    THEN [export |-> export, ret |-> ES_PARAMETER_SIZE_OR_ALIGNMENT]
    ELSE [export |-> [export EXCEPT !.contents =
                        [k \in DOMAIN export.contents \ {cid} |-> export.contents[k]]],
          ret |-> IPC_SUCCESS]

\* IOCTL_ES_EXPORTCONTENTEND; size_ok says whether the input vector has 4 bytes.
IOCtlV_ExportContentEnd ==
  /\ \E shape \in ShapesFor(1, 0), size_ok \in BOOLEAN :
       IF ~HasNumberOfValidVectors(shape, 1, 0) \/ ~size_ok
         THEN /\ last' = [Call("ExportContentEnd", shape, ES_PARAMETER_SIZE_OR_ALIGNMENT)
                            EXCEPT !.ok = size_ok]
              /\ UNCHANGED m_export_title_context
         ELSE \E cid \in 0..MaxExport :
                LET r == ES_ExportContentEnd(m_export_title_context, cid)
                IN  /\ m_export_title_context' = r.export
                    /\ last' = [Call("ExportContentEnd", shape, r.ret) EXCEPT !.cfd = cid]
  /\ UNCHANGED <<title_vars, access_vars, import_vars>>

\* A title import, step by step.
NextImport ==
  \/ IOCtlV_AddTMD
  \/ IOCtlV_AddTitleStart
  \/ IOCtlV_AddContentStart
  \/ IOCtlV_AddContentData
  \/ IOCtlV_AddContentFinish
  \/ IOCtlV_AddTitleFinish

SpecImport == Init /\ [][NextImport]_vars

\* Title exports, of installed titles and of a title booted from a WAD file.
NextExport ==
  \/ LoadWAD(WadFiles)
  \/ Clear
  \/ IOCtlV_ExportTitleInit
  \/ IOCtlV_ExportTitleDone

SpecExport == Init /\ [][NextExport]_vars

\* Export sessions with their content streams.
NextStream ==
  \/ IOCtlV_ExportTitleInit
  \/ IOCtlV_ExportContentBegin
  \/ IOCtlV_ExportContentData
  \/ IOCtlV_ExportContentEnd
  \/ IOCtlV_ExportTitleDone

SpecStream == Init /\ [][NextStream]_vars

(***************************************************************************)
(* Launching titles                                                        *)
(***************************************************************************)
\* Titles a caller asks to launch: an IOS, the system menu, a game, a title that is
\* missing from the NAND, a title whose ticket is invalid and a title whose TMD names
\* a game as the IOS it requires.
LaunchTitles == {IOS9, TITLEID_SYSMENU, GameA, GameB, ChannelC, ChannelD}

\* What a LaunchTitle call does to the history of the title context.
HistLaunch(h, r) ==
  IF r.boot = 1
    THEN HistUpdate(HistClear(h), TitleContext_Clear(r.ctx), r.ctx.tmd, r.ctx.ticket)
    ELSE HistClear(h)

\* A call of ES::LaunchTitle from outside the ioctlv dispatcher, for one of the
\* given titles.
LaunchTitleOf(title_ids) ==
  \E title_id \in title_ids, skip_reload \in BOOLEAN, reload_ok \in BOOLEAN,
     boot_ok \in BOOLEAN :
    LET r == LaunchTitle(s_title_context, s_title_to_launch, nand, title_id, skip_reload,
                         reload_ok, boot_ok, 0)
    IN  /\ s_title_context' = r.ctx
        /\ s_title_to_launch' = r.pending
        /\ last' = LaunchCall("LaunchTitle", <<0, 0>>, NoReturn, title_id, skip_reload, r)
        /\ hist' = HistLaunch(hist, r)
        /\ UNCHANGED <<s_content_file, nand, es_vars, savestate>>

ES_LaunchTitle == LaunchTitleOf(LaunchTitles)

\* The title LaunchBC launches (0x0000000100000100).
TITLEID_BC == <<1, 256>>

\* A handler that also writes a success reply after the acknowledgement.
ES_LaunchReply_Replies(launched) ==
  IF ~launched THEN [ret |-> ES_INVALID_TMD, acks |-> 0]
  ELSE [ret |-> IPC_SUCCESS, acks |-> 1]

\* A handler that looks at its own CFD counter after LaunchTitle has returned.
ES_LaunchReply_ReadsCounter(launched) ==
  IF ~launched THEN [ret |-> ES_INVALID_TMD, acks |-> 0]
  ELSE [ret |-> IF m_AccessIdentID = 0 THEN NoReturn ELSE Value(U(0)), acks |-> 1]

\* How ES::Launch and ES::LaunchBC answer once LaunchTitle has returned: an error
\* reply when the launch failed; one acknowledgement enqueued by the handler and no
\* reply when it succeeded.
ES_LaunchReply(launched) ==
  IF ~launched THEN [ret |-> ES_INVALID_TMD, acks |-> 0]
  ELSE [ret |-> NoReturn, acks |-> 1]

\* IOCTL_ES_LAUNCH
IOCtlV_Launch ==
  \E shape \in ShapesFor(2, 0) :
    IF ~HasNumberOfValidVectors(shape, 2, 0)
      THEN /\ last' = Call("Launch", shape, ES_PARAMETER_SIZE_OR_ALIGNMENT)
           /\ UNCHANGED <<ctx_vars, es_vars>>
      ELSE \E TitleID \in LaunchTitles, reload_ok \in BOOLEAN :
             LET r == LaunchTitle(s_title_context, s_title_to_launch, nand, TitleID, FALSE,
                                  reload_ok, TRUE, 0)
                 a == ES_LaunchReply(r.result)
             IN  /\ s_title_context' = r.ctx
                 /\ s_title_to_launch' = r.pending
                 /\ last' = [LaunchCall("Launch", shape, a.ret, TitleID, FALSE, r)
                               EXCEPT !.acks = @ + a.acks]
                 /\ hist' = HistLaunch(hist, r)
                 /\ UNCHANGED <<s_content_file, nand, es_vars, savestate>>

\* IOCTL_ES_LAUNCHBC; is_mios says whether the running IOS is MIOS (GetVersion() ==
\* 0x101), in which case nothing is launched.
IOCtlV_LaunchBC ==
  \E shape \in ShapesFor(0, 0), is_mios \in BOOLEAN :
    IF ~HasNumberOfValidVectors(shape, 0, 0) \/ is_mios
      THEN /\ last' = [Call("LaunchBC", shape, ES_PARAMETER_SIZE_OR_ALIGNMENT)
                         EXCEPT !.ok = ~is_mios]
           /\ UNCHANGED <<ctx_vars, es_vars>>
      ELSE \E reload_ok \in BOOLEAN :
             LET r == LaunchTitle(s_title_context, s_title_to_launch, nand, TITLEID_BC,
                                  FALSE, reload_ok, TRUE, 0)
                 a == ES_LaunchReply(r.result)
             IN  /\ s_title_context' = r.ctx
                 /\ s_title_to_launch' = r.pending
                 /\ last' = [LaunchCall("LaunchBC", shape, a.ret, TITLEID_BC, FALSE, r)
                               EXCEPT !.acks = @ + a.acks]
                 /\ hist' = HistLaunch(hist, r)
                 /\ UNCHANGED <<s_content_file, nand, es_vars, savestate>>

\* Launches, the re-initialisation that follows a reload, and a WAD boot.
NextLaunch ==
  \/ ES_LaunchTitle
  \/ IOCtlV_Launch
  \/ IOCtlV_LaunchBC
  \/ ES_Init
  \/ LoadWAD({"b.wad"})

SpecLaunch == Init /\ [][NextLaunch]_vars

\* Launches on a NAND that also holds a title whose TMD names the title itself as
\* the IOS it requires.
NextNesting ==
  \/ LaunchTitleOf(LaunchTitles \cup {ChannelS})
  \/ ES_Init

SpecNesting == Init /\ [][NextNesting]_vars

\* Launches and re-initialisations of a service that holds open contents.
NextReload ==
  \/ IOCtlV_OpenTitleContent(MaxReadCFD)
  \/ IOCtlV_CloseContent(0..MaxReadCFD)
  \/ IOCtlV_Launch
  \/ IOCtlV_LaunchBC
  \/ ES_Init

SpecReload == Init /\ [][NextReload]_vars

(***************************************************************************)
(* The Encrypt and Decrypt commands.  A cipher block is two bits instead   *)
(* of 16 bytes; a buffer is a sequence of whole blocks and, when partial,  *)
(* some bytes more.                                                        *)
(***************************************************************************)
\* Longest buffer, in blocks.
MaxBlocks == 2

\* The values of a block.
BlockVals == 0..3

Buffers == UNION { [1..n -> BlockVals] : n \in 0..MaxBlocks }

\* Indexes into the key table a caller passes, and the key at an index.
KeyIndexVals == {4, 6}

s_key_table(key_index) ==
  CASE key_index = 0 -> 2
    [] key_index = 6 -> 1
    [] OTHER -> 0

\* Bitwise exclusive or of two blocks.
Xor(a, b) == (((a % 2) + (b % 2)) % 2) + 2 * (((a \div 2) + (b \div 2)) % 2)

\* The block cipher: a permutation of the blocks for each key, and its inverse.
AES_Encrypt(key, block) == (3 * block + key + 1) % 4

AES_Decrypt(key, block) ==
  (3 * (block + 4 - ((key + 1) % 4))) % 4

\* CBC over whole blocks: the output and the IV buffer as the cipher leaves it.
RECURSIVE CbcEncrypt(_, _, _)
CbcEncrypt(key, iv, input) ==
  IF input = << >> THEN [iv |-> iv, output |-> << >>]
  ELSE LET block == AES_Encrypt(key, Xor(Head(input), iv))
           rest  == CbcEncrypt(key, block, Tail(input))
       IN  [iv |-> rest.iv, output |-> <<block>> \o rest.output]

RECURSIVE CbcDecrypt(_, _, _)
CbcDecrypt(key, iv, input) ==
  IF input = << >> THEN [iv |-> iv, output |-> << >>]
  ELSE LET block == Xor(AES_Decrypt(key, Head(input)), iv)
           rest  == CbcDecrypt(key, Head(input), Tail(input))
       IN  [iv |-> rest.iv, output |-> <<block>> \o rest.output]

\* mbedtls_aes_crypt_cbc: a length that is not a multiple of the block size is
\* refused before anything is written.
mbedtls_aes_crypt_cbc(encrypt, key, partial, iv, input) ==
  IF partial THEN [iv |-> iv, output |-> << >>]
  ELSE IF encrypt THEN CbcEncrypt(key, iv, input)
  ELSE CbcDecrypt(key, iv, input)

\* A DecryptContent that runs the cipher on a scratch copy of the IV.
ES_DecryptContent_ScratchIV(key_index, iv, input, partial) ==
  LET r == mbedtls_aes_crypt_cbc(FALSE, s_key_table(key_index), partial, iv, input)
  IN  [new_iv |-> iv, output |-> r.output]

\* ES::DecryptContent: new_iv receives a copy of iv and is then the IV buffer the
\* cipher works on.
ES_DecryptContent(key_index, iv, input, partial) ==
  LET new_iv == iv
      r == mbedtls_aes_crypt_cbc(FALSE, s_key_table(key_index), partial, new_iv, input)
  IN  [new_iv |-> r.iv, output |-> r.output]

\* ES::Encrypt once the vector counts are accepted.
ES_Encrypt(key_index, iv, input, partial) ==
  LET new_iv == iv
      r == mbedtls_aes_crypt_cbc(TRUE, s_key_table(key_index), partial, new_iv, input)
  IN  [new_iv |-> r.iv, output |-> r.output]

\* The record of an Encrypt or Decrypt call.
CryptCall(op, shape, key_index, iv, input, partial, r) ==
  [Call(op, shape, IPC_SUCCESS) EXCEPT
     !.key = key_index, !.iv = iv, !.input = input, !.partial = partial,
     !.new_iv = r.new_iv, !.output = r.output]

\* IOCTL_ES_ENCRYPT
IOCtlV_Encrypt ==
  /\ \E shape \in ShapesFor(3, 2) :
       IF ~HasNumberOfValidVectors(shape, 3, 2)
         THEN last' = Call("Encrypt", shape, ES_PARAMETER_SIZE_OR_ALIGNMENT)
         ELSE \E key_index \in KeyIndexVals, iv \in BlockVals, input \in Buffers,
                 partial \in BOOLEAN :
                last' = CryptCall("Encrypt", shape, key_index, iv, input, partial,
                                  ES_Encrypt(key_index, iv, input, partial))
  /\ UNCHANGED <<title_vars, access_vars, import_vars, m_export_title_context>>

\* IOCTL_ES_DECRYPT
IOCtlV_Decrypt ==
  /\ \E shape \in ShapesFor(3, 2) :
       IF ~HasNumberOfValidVectors(shape, 3, 2)
         THEN last' = Call("Decrypt", shape, ES_PARAMETER_SIZE_OR_ALIGNMENT)
         ELSE \E key_index \in KeyIndexVals, iv \in BlockVals, input \in Buffers,
                 partial \in BOOLEAN :
                last' = CryptCall("Decrypt", shape, key_index, iv, input, partial,
                                  ES_DecryptContent(key_index, iv, input, partial))
  /\ UNCHANGED <<title_vars, access_vars, import_vars, m_export_title_context>>

NextCrypto ==
  \/ IOCtlV_Encrypt
  \/ IOCtlV_Decrypt

SpecCrypto == Init /\ [][NextCrypto]_vars

(***************************************************************************)
(* DeleteTitle.  A title has a directory under the session root when it is *)
(* installed on the NAND or an import has written its TMD or a content.    *)
(***************************************************************************)
ChannelE == <<65537, 1>>

ChannelF == <<65537, 2>>

SystemLow == <<1, 257>>

SystemHigh == <<1, 258>>

\* Title ids a caller asks to delete, and TMDs a caller installs beforehand.
DeleteTitleVals == {TITLEID_SYSMENU, SystemLow, SystemHigh, GameA, ChannelD, ChannelE, ChannelF}

DeleteTMDs ==
  { TMDReader(SystemHigh, IOS9, TRUE), TMDReader(ChannelE, IOS9, TRUE),
    TMDReader(ChannelF, IOS9, TRUE) }

\* A CanDeleteTitle that wants both conditions.
CanDeleteTitle_Both(title_id) == title_id[1] # 1 /\ title_id[2] > 257

\* CanDeleteTitle
CanDeleteTitle(title_id) == title_id[1] # 1 \/ title_id[2] > 257

\* The files of a title's directory.
TitleDir(files, title_id) ==
  { f \in files : f.title = title_id /\ f.kind \in {"tmd", "app"} }

\* File::IsDirectory(title_dir)
IsDirectory(titles, files, title_id) ==
  \/ title_id \in DOMAIN titles /\ titles[title_id].valid
  \/ TitleDir(files, title_id) # {}

\* CNANDContentManager::RemoveTitle: the title's loader and its files go.
RemoveTitle(titles, files, title_id) ==
  [titles |-> [t \in DOMAIN titles |-> IF t = title_id THEN InvalidLoader ELSE titles[t]],
   files  |-> files \ TitleDir(files, title_id)]

\* ES::DeleteTitle once the vector count and size are accepted; remove_ok and
\* delete_ok are what RemoveTitle and File::DeleteDirRecursively return.
ES_DeleteTitle(titles, files, title_id, remove_ok, delete_ok) ==
  IF ~CanDeleteTitle(title_id)
    THEN [titles |-> titles, files |-> files, ret |-> ES_PARAMETER_SIZE_OR_ALIGNMENT]
  ELSE IF ~IsDirectory(titles, files, title_id) \/ ~remove_ok
    THEN [titles |-> titles, files |-> files, ret |-> FS_ENOENT]
  ELSE LET r == RemoveTitle(titles, files, title_id)
       IN  [titles |-> r.titles, files |-> r.files,
            ret |-> IF delete_ok THEN IPC_SUCCESS ELSE FS_EACCESS]

\* IOCTL_ES_DELETETITLE; size_ok says whether the input vector has 8 bytes.
IOCtlV_DeleteTitle ==
  /\ \E shape \in ShapesFor(1, 0), size_ok \in BOOLEAN :
       IF ~HasNumberOfValidVectors(shape, 1, 0) \/ ~size_ok
         THEN /\ last' = [Call("DeleteTitle", shape, ES_PARAMETER_SIZE_OR_ALIGNMENT)
                            EXCEPT !.ok = size_ok]
              /\ UNCHANGED <<nand, session_root>>
         ELSE \E title_id \in DeleteTitleVals, remove_ok \in BOOLEAN, delete_ok \in BOOLEAN :
                LET r == ES_DeleteTitle(nand, session_root, title_id, remove_ok, delete_ok)
                IN  /\ nand' = r.titles
                    /\ session_root' = r.files
                    /\ last' = [Call("DeleteTitle", shape, r.ret) EXCEPT
                                  !.title = title_id, !.io = remove_ok /\ delete_ok]
  /\ UNCHANGED <<s_title_context, s_content_file, s_title_to_launch, savestate, hist,
                 access_vars, m_addtitle_tmd, m_addtitle_content_id,
                 m_addtitle_content_buffer, m_export_title_context, stm_vars>>

\* ES::DeleteTitleContent once the vector count is accepted.
ES_DeleteTitleContent(titles, files, title_id, remove_ok) ==
  IF ~IsDirectory(titles, files, title_id) \/ ~remove_ok
    THEN [titles |-> titles, files |-> files, ret |-> ES_PARAMETER_SIZE_OR_ALIGNMENT]
    ELSE LET r == RemoveTitle(titles, files, title_id)
         IN  [titles |-> r.titles, files |-> r.files, ret |-> IPC_SUCCESS]

\* IOCTL_ES_DELETETITLECONTENT
IOCtlV_DeleteTitleContent ==
  /\ \E shape \in ShapesFor(1, 0) :
       IF ~HasNumberOfValidVectors(shape, 1, 0)
         THEN /\ last' = Call("DeleteTitleContent", shape, ES_PARAMETER_SIZE_OR_ALIGNMENT)
              /\ UNCHANGED <<nand, session_root>>
         ELSE \E title_id \in DeleteTitleVals, remove_ok \in BOOLEAN :
                LET r == ES_DeleteTitleContent(nand, session_root, title_id, remove_ok)
                IN  /\ nand' = r.titles
                    /\ session_root' = r.files
                    /\ last' = [Call("DeleteTitleContent", shape, r.ret) EXCEPT
                                  !.title = title_id, !.io = remove_ok]
  /\ UNCHANGED <<s_title_context, s_content_file, s_title_to_launch, savestate, hist,
                 access_vars, m_addtitle_tmd, m_addtitle_content_id,
                 m_addtitle_content_buffer, m_export_title_context, stm_vars>>

NextDelete ==
  \/ AddTMD(DeleteTMDs)
  \/ IOCtlV_DeleteTitle

SpecDelete == Init /\ [][NextDelete]_vars

(***************************************************************************)
(* The STM event-hook device (/dev/stm/eventhook).  A handler's reply is   *)
(* "default" (sent by the dispatcher when the handler returns) or "none".  *)
(* parked is a history: every event-hook ioctl appends the request, with   *)
(* the number of replies enqueued for it so far, and current is the index  *)
(* of the request the device has registered (0: none).                     *)
(***************************************************************************)
\* Most event-hook requests and most enqueued replies the model follows.
MaxRequests == 3

MaxReplies == 3

\* The parameter word of an ioctl.
StmParameterVals == {"IOCTL_STM_EVENTHOOK", "IOCTL_STM_HOTRESET"}

StmCall(op, reply, address, enqueued) ==
  [Call(op, <<0, 0>>, IF reply = "none" THEN NoReturn ELSE IPC_SUCCESS) EXCEPT
     !.cfd = address, !.acks = enqueued]

\* CWII_IPC_HLE_Device_stm_eventhook::Open
eventhook_Open ==
  /\ \E command_address \in StmAddrVals :
       /\ memory' = [memory EXCEPT ![command_address] = "GetDeviceID"]
       /\ last' = StmCall("eventhook_Open", "default", command_address, 0)
  /\ m_Active' = TRUE
  /\ UNCHANGED <<m_event_hook_address, reply_queue, parked>>
  /\ UNCHANGED <<s_title_context, s_content_file, s_title_to_launch, nand, savestate, hist,
                 access_vars, import_vars, m_export_title_context>>

\* What Close does to m_event_hook_address.
eventhook_CloseHook(hook) == 0

\* CWII_IPC_HLE_Device_stm_eventhook::Close
eventhook_Close ==
  /\ \E command_address \in StmAddrVals, force \in BOOLEAN :
       /\ memory' = IF force THEN memory ELSE [memory EXCEPT ![command_address] = "0"]
       /\ last' = [StmCall("eventhook_Close", "default", command_address, 0)
                     EXCEPT !.ok = ~force]
  /\ m_event_hook_address' = eventhook_CloseHook(m_event_hook_address)
  /\ m_Active' = FALSE
  /\ parked' = [parked EXCEPT !.current = IF m_event_hook_address' = 0 THEN 0 ELSE @]
  /\ UNCHANGED reply_queue
  /\ UNCHANGED <<s_title_context, s_content_file, s_title_to_launch, nand, savestate, hist,
                 access_vars, import_vars, m_export_title_context>>

\* An event-hook ioctl that answers at once.
eventhook_IOCtlReply_Immediate(parameter) == "default"

\* The reply of CWII_IPC_HLE_Device_stm_eventhook::IOCtl.
eventhook_IOCtlReply(parameter) ==
  IF parameter # "IOCTL_STM_EVENTHOOK" THEN "default" ELSE "none"

\* CWII_IPC_HLE_Device_stm_eventhook::IOCtl; commands reach the device through an
\* open descriptor.
eventhook_IOCtl ==
  /\ m_Active
  /\ \E command_address \in StmAddrVals, parameter \in StmParameterVals :
       /\ last' = [StmCall("eventhook_IOCtl", eventhook_IOCtlReply(parameter),
                           command_address, 0)
                     EXCEPT !.ok = (parameter = "IOCTL_STM_EVENTHOOK")]
       /\ IF parameter # "IOCTL_STM_EVENTHOOK"
            THEN /\ memory' = [memory EXCEPT ![command_address] = "FS_EINVAL"]
                 /\ UNCHANGED <<m_event_hook_address, parked>>
            ELSE /\ Len(parked.requests) < MaxRequests
                 /\ m_event_hook_address' = command_address
                 /\ parked' = [requests |-> Append(parked.requests,
                                                   [address |-> command_address,
                                                    replies |-> 0]),
                               current  |-> Len(parked.requests) + 1]
                 /\ UNCHANGED memory
  /\ UNCHANGED <<m_Active, reply_queue>>
  /\ UNCHANGED <<s_title_context, s_content_file, s_title_to_launch, nand, savestate, hist,
                 access_vars, import_vars, m_export_title_context>>

\* Whether ResetButton goes on to complete the parked request.
eventhook_ResetButtonFires(active, hook) == ~(~active \/ hook = 0)

\* CWII_IPC_HLE_Device_stm_eventhook::ResetButton
eventhook_ResetButton ==
  /\ Len(reply_queue) < MaxReplies
  /\ IF ~eventhook_ResetButtonFires(m_Active, m_event_hook_address)
       THEN /\ last' = StmCall("eventhook_ResetButton", "none", 0, 0)
            /\ UNCHANGED <<memory, reply_queue, parked>>
       ELSE /\ memory' = [memory EXCEPT ![m_event_hook_address] = "FS_SUCCESS"]
            /\ reply_queue' = Append(reply_queue, m_event_hook_address)
            /\ parked' = IF parked.current = 0 THEN parked
                         ELSE [parked EXCEPT !.requests[parked.current].replies = @ + 1]
            /\ last' = StmCall("eventhook_ResetButton", "none", m_event_hook_address, 1)
  /\ UNCHANGED <<m_Active, m_event_hook_address>>
  /\ UNCHANGED <<s_title_context, s_content_file, s_title_to_launch, nand, savestate, hist,
                 access_vars, import_vars, m_export_title_context>>

NextStm ==
  \/ eventhook_Open
  \/ eventhook_Close
  \/ eventhook_IOCtl
  \/ eventhook_ResetButton

SpecStm == Init /\ [][NextStm]_vars

(***************************************************************************)
(* The content access table while titles are launched and deleted.         *)
(***************************************************************************)
NextAccess ==
  \/ IOCtlV_OpenTitleContent(MaxReadCFD)
  \/ IOCtlV_CloseContent(0..MaxReadCFD)
  \/ ES_LaunchTitle
  \/ IOCtlV_DeleteTitle
  \/ IOCtlV_DeleteTitleContent

SpecAccess == Init /\ [][NextAccess]_vars

(***************************************************************************)
(* The title context on its own: Init, Clear, Update, LoadWAD and the      *)
(* save/restore of the state.                                              *)
(***************************************************************************)
NextCtx ==
  \/ ES_Init
  \/ Clear
  \/ Update
  \/ LoadWAD(WadFiles)
  \/ DoStateWrite
  \/ DoStateRead

SpecCtx == Init /\ [][NextCtx]_vars

(***************************************************************************)
(* Title context: the statements checked under SpecCtx                     *)
(***************************************************************************)
UpdateSucceeded == last.op = "Update" /\ last.tmd.valid /\ last.ticket.valid

UpdateRefused == last.op = "Update" /\ (~last.tmd.valid \/ ~last.ticket.valid)

\* C2: after Update(tmd, ticket) with a valid TMD and a valid ticket the context is
\* active and holds exactly that TMD and that ticket; after Clear() the context is
\* inactive, whatever came before.
C2_UpdateHoldsPair_ClearDeactivates ==
  /\ UpdateSucceeded =>
       /\ s_title_context.active
       /\ s_title_context.tmd = last.tmd
       /\ s_title_context.ticket = last.ticket
  /\ last.op = "Clear" => ~s_title_context.active

\* An Update of an active context with a TMD and a ticket of different titles.
C2_Witness ==
  /\ UpdateSucceeded
  /\ hist.while_active
  /\ last.tmd.title_id # last.ticket.title_id

\* C3 as stated: the first successful Update that follows a Clear fires the
\* running-title-changed notification exactly once.
C3_FirstUpdateAfterClearFires ==
  (UpdateSucceeded /\ hist.after_clear) => last.fired = 1

\* C3 as the code has it: a successful Update fires the notification exactly once
\* when it is the first successful Update since the last ES::Init, and not at all
\* otherwise; a Clear in between does not re-arm it.
C3_FirstUpdateAfterInitFires ==
  UpdateSucceeded => (last.fired = IF hist.updates = 1 THEN 1 ELSE 0)

\* The first successful Update since Init, following a Clear: it fires once.
C3_Witness ==
  UpdateSucceeded /\ hist.after_clear /\ hist.updates = 1 /\ last.fired = 1

C5_RefusedUpdateChangesNothing ==
  [][(UpdateRefused' \/ (last'.op = "LoadWAD" /\ ~last'.ok))
       => (s_title_context' = s_title_context /\ last'.fired = 0)]_vars

\* A refused Update (invalid TMD, valid ticket) of an active context.
C5_Witness ==
  /\ UpdateRefused
  /\ ~last.tmd.valid /\ last.ticket.valid
  /\ s_title_context.active

(***************************************************************************)
(* Content access table: the statements checked under SpecContent and      *)
(* SpecRead                                                                *)
(***************************************************************************)
\* The last call was the handler op, with the vector counts it accepts.
Handled(op) == last.op = op /\ last.shape = AcceptedShape(op)

\* The loader an open of last'.title resolves, in the state before the call.
ResolvedLoader ==
  AccessContentDevice(s_title_context, s_content_file, nand, last'.title)

\* C6: an OpenTitleContent or OpenContent for a title whose loader is invalid, or
\* with an index that the loader does not contain, returns 0xFFFFFFFF and adds no
\* entry to the content access table.
C6_FailedOpenAddsNothing ==
  [][((Handled("OpenTitleContent")' \/ (Handled("OpenContent")' /\ s_title_context.active))
      /\ (\/ ~ResolvedLoader.valid
          \/ \A c \in ResolvedLoader.contents : U(c.index) # last'.x))
       => (last'.ret = Value(InvalidCFD) /\ m_ContentAccessMap' = m_ContentAccessMap)]_vars

\* The entry a ReadContent, SeekContent or CloseContent of last'.cfd works on.
OpenBefore == last'.cfd \in DOMAIN m_ContentAccessMap

EntryBefore == m_ContentAccessMap[last'.cfd]

PastEnd(entry) == Gt32(entry.m_position, U(entry.m_content.size))

\* C7: for every open handle, position and requested size, ReadContent (into a
\* destination the guest can address) returns a byte count that is at most
\* content.size - position, and the position afterwards is the position before
\* plus exactly the returned count.
C7_ReadWithinContent ==
  [][(Handled("ReadContent")' /\ OpenBefore /\ last'.ok)
       => /\ IF PastEnd(EntryBefore)
               THEN last'.ret.val = U(0)
               ELSE ~Gt32(last'.ret.val,
                          Sub32(U(EntryBefore.m_content.size), EntryBefore.m_position))
          /\ m_ContentAccessMap'[last'.cfd].m_position =
               Add32(EntryBefore.m_position, last'.ret.val)]_vars

\* C8: once SeekContent has put a handle's position beyond the content's declared
\* size, a ReadContent on that handle returns 0 bytes and leaves the position
\* unchanged.
C8_ReadPastEndIsEmpty ==
  [][(Handled("ReadContent")' /\ OpenBefore /\ PastEnd(EntryBefore))
       => /\ last'.ret = Value(U(0))
          /\ m_ContentAccessMap'[last'.cfd] = EntryBefore]_vars

\* C9: CloseContent on a handle that is not in the table returns -1 and leaves the
\* table unchanged; on a handle that is in the table it removes exactly that entry
\* and leaves every other entry (title id, content entry, position) unchanged.
C9_CloseRemovesExactlyOne ==
  [][Handled("CloseContent")'
       => IF OpenBefore
            THEN /\ last'.ret = IPC_SUCCESS
                 /\ DOMAIN m_ContentAccessMap' = DOMAIN m_ContentAccessMap \ {last'.cfd}
                 /\ \A k \in DOMAIN m_ContentAccessMap' :
                      m_ContentAccessMap'[k] = m_ContentAccessMap[k]
            ELSE /\ last'.ret = Value(InvalidCFD)
                 /\ m_ContentAccessMap' = m_ContentAccessMap]_vars

\* A successful close that left another entry, not at position 0, in the table.
C9_Witness ==
  /\ Handled("CloseContent")
  /\ last.ret = IPC_SUCCESS
  /\ \E k \in DOMAIN m_ContentAccessMap : m_ContentAccessMap[k].m_position # U(0)

(***************************************************************************)
(* Import and export sessions: the statements checked under SpecImport and *)
(* SpecExport                                                              *)
(***************************************************************************)
\* The ioctlv commands of the model.
IoctlvCommands ==
  {"OpenTitleContent", "OpenContent", "ReadContent", "CloseContent", "SeekContent",
   "AddTMD", "AddTitleStart", "AddContentStart", "AddContentData", "AddContentFinish",
   "AddTitleFinish", "ExportTitleInit", "ExportTitleDone", "Launch",
   "ExportContentBegin", "ExportContentData", "ExportContentEnd",
   "LaunchBC", "Encrypt", "Decrypt", "DeleteTitle",
   "DeleteTitleContent"}

\* C1: for every ES ioctlv command, a request whose number of input or output
\* vectors differs from the counts the command's handler accepts is answered with
\* ES_PARAMETER_SIZE_OR_ALIGNMENT, and the title context, the content access table,
\* the CFD counter, the import session and the export session are unchanged.
C1_BadShapeRejectedUnchanged ==
  [][(last'.op \in IoctlvCommands /\ last'.shape # AcceptedShape(last'.op))
       => /\ last'.ret = ES_PARAMETER_SIZE_OR_ALIGNMENT
          /\ UNCHANGED <<s_title_context, m_ContentAccessMap, m_AccessIdentID,
                         m_addtitle_tmd, m_addtitle_content_id,
                         m_addtitle_content_buffer, m_export_title_context>>]_vars

\* C10: an AddContentStart issued while a content transfer is in flight (the
\* pending content id is not 0xFFFFFFFF) fails and leaves the pending content id
\* and the byte accumulator of the first transfer unchanged.
C10_SecondStartLeavesFirst ==
  [][(Handled("AddContentStart")' /\ m_addtitle_content_id # InvalidCFD)
       => /\ last'.ret.err # "none"
          /\ m_addtitle_content_id' = m_addtitle_content_id
          /\ m_addtitle_content_buffer' = m_addtitle_content_buffer]_vars

\* A second AddContentStart, for another content id, was refused while the first
\* transfer had bytes in its accumulator.
C10_Witness ==
  /\ Handled("AddContentStart")
  /\ last.ret = ES_WRITE_FAILURE
  /\ m_addtitle_content_id \notin {InvalidCFD, last.x}
  /\ m_addtitle_content_buffer # << >>

\* C11: import steps are accepted only in the order begin title, begin content,
\* append data, finish content, finish title: AddContentData or AddContentFinish
\* with no content transfer in flight, and AddContentStart, AddContentData or
\* AddContentFinish while no valid pending TMD is held, return an error.
C11_OutOfOrderStepFails ==
  [][(\/ /\ Handled("AddContentData")' \/ Handled("AddContentFinish")'
         /\ m_addtitle_content_id = InvalidCFD
      \/ /\ \/ Handled("AddContentStart")'
            \/ Handled("AddContentData")'
            \/ Handled("AddContentFinish")'
         /\ ~m_addtitle_tmd.valid)
       => last'.ret.err # "none"]_vars

\* C12: an AddTitleStart or AddTMD request rejected with ES_INVALID_TMD leaves the
\* pending TMD exactly as it was, so a previously accepted valid TMD is still
\* pending afterwards.
C12_RejectedTMDKeepsPending ==
  [][((Handled("AddTMD")' \/ Handled("AddTitleStart")') /\ last'.ret = ES_INVALID_TMD)
       => m_addtitle_tmd' = m_addtitle_tmd]_vars

\* C13: AddContentFinish with a valid pending TMD but no installed signed ticket for
\* the TMD's title returns ES_NO_TICKET_INSTALLED, writes no content, and leaves the
\* pending content id and the accumulator unchanged.
C13_FinishWithoutTicket ==
  [][(/\ Handled("AddContentFinish")'
      /\ m_addtitle_tmd.valid
      /\ ~FindSignedTicket(nand, m_addtitle_tmd.title_id).valid)
       => /\ last'.ret = ES_NO_TICKET_INSTALLED
          /\ session_root' = session_root
          /\ m_addtitle_content_id' = m_addtitle_content_id
          /\ m_addtitle_content_buffer' = m_addtitle_content_buffer]_vars

\* An AddContentFinish was refused for want of a ticket while a transfer with bytes
\* in its accumulator was in flight.
C13_Witness ==
  /\ Handled("AddContentFinish")
  /\ last.ret = ES_NO_TICKET_INSTALLED
  /\ m_addtitle_tmd.valid
  /\ m_addtitle_content_id # InvalidCFD
  /\ m_addtitle_content_buffer # << >>

\* C14: after AddContentFinish returns success the pending content id is
\* 0xFFFFFFFF, so an AddContentStart that follows it under the same valid pending
\* TMD is accepted.
C14_StartAfterFinishAccepted ==
  [][(Handled("AddContentFinish") /\ last.ret = IPC_SUCCESS)
       => /\ m_addtitle_content_id = InvalidCFD
          /\ m_addtitle_tmd.valid
          /\ Handled("AddContentStart")' => last'.ret = Value(U(0))]_vars

\* An AddContentFinish has just succeeded and written its content.
C14_Witness ==
  /\ Handled("AddContentFinish")
  /\ last.ret = IPC_SUCCESS
  /\ ContentFile(m_addtitle_tmd.title_id, last.x) \in session_root
  /\ ENABLED IOCtlV_AddContentStart

\* C15: AddTitleFinish with 0 input and 0 output vectors succeeds exactly when the
\* pending TMD is valid and otherwise returns ES_PARAMETER_SIZE_OR_ALIGNMENT; after
\* it succeeds the pending TMD is empty, so an immediately following AddTitleFinish
\* returns ES_PARAMETER_SIZE_OR_ALIGNMENT.
C15_TitleFinishNeedsTMD ==
  [][/\ Handled("AddTitleFinish")'
          => /\ last'.ret = IF m_addtitle_tmd.valid THEN IPC_SUCCESS
                            ELSE ES_PARAMETER_SIZE_OR_ALIGNMENT
             /\ last'.ret = IPC_SUCCESS => m_addtitle_tmd' = EmptyTMD
     /\ (Handled("AddTitleFinish") /\ last.ret = IPC_SUCCESS /\ Handled("AddTitleFinish")')
          => last'.ret = ES_PARAMETER_SIZE_OR_ALIGNMENT]_vars

\* An AddTitleFinish has just ended an import whose TMD had been accepted.
C15_Witness ==
  /\ Handled("AddTitleFinish")
  /\ last.ret = IPC_SUCCESS
  /\ m_addtitle_tmd = EmptyTMD
  /\ session_root # {}

(***************************************************************************)
(* Launching titles: the statements checked under SpecLaunch               *)
(***************************************************************************)
\* The last call ran LaunchTitle: a direct call, IOCTL_ES_LAUNCH, or ES::Init with a
\* pending launch.
LaunchRan == last.launches > 0

\* The last call was LaunchTitle(last.title, last.skip) itself.
LaunchCalled == LaunchRan /\ last.op \in {"LaunchTitle", "Launch", "LaunchBC"}

\* A title of type System other than the system menu.
SystemNotMenu(title_id) == title_id[1] = 1 /\ title_id # <<1, 2>>

\* C16: every LaunchTitle call deactivates the title context before anything else,
\* so whenever LaunchTitle returns failure the title context is inactive.
C16_FailedLaunchInactive ==
  (LaunchRan /\ ~last.result) => ~s_title_context.active

\* C16, amended: a LaunchTitle that returns failure before it reaches the bootstrap
\* (title missing, invalid TMD or ticket, failed reload) leaves the title context
\* inactive.
C16_FailedBeforeBootstrapInactive ==
  (LaunchRan /\ ~last.result /\ last.boot = 0) => ~s_title_context.active

\* A launch failed after a WAD boot had made the title context active.
C16_Witness ==
  /\ LaunchCalled
  /\ ~last.result
  /\ last.boot = 0
  /\ hist.updates > 0
  /\ s_content_file = "b.wad"
  /\ ~s_title_context.active

\* C17: LaunchTitle of a title of type System that is not the system menu reloads
\* the service to that title and returns the reload's outcome: it resolves no
\* content loader, records no pending launch, does not update the title context and
\* does not bootstrap.
C17_LaunchIOSOnlyReloads ==
  [][(LaunchCalled' /\ SystemNotMenu(last'.title))
       => /\ last'.reload = last'.title
          /\ last'.result = last'.reload_ok
          /\ last'.loaders = 0
          /\ s_title_to_launch' = s_title_to_launch
          /\ last'.fired = 0
          /\ ~s_title_context'.active
          /\ last'.boot = 0]_vars

\* An IOS was launched while another launch was pending, and its reload failed.
C17_Witness ==
  /\ LaunchCalled
  /\ last.title = IOS9
  /\ last.reload = IOS9
  /\ ~last.result
  /\ s_title_to_launch # NoTitle

\* The installed title's loader, TMD and ticket are valid.
Launchable(title_id) ==
  /\ title_id \in DOMAIN nand
  /\ nand[title_id].valid /\ nand[title_id].tmd.valid /\ nand[title_id].ticket.valid

\* C18: LaunchTitle of an ordinary title with skip_reload=false whose loader, TMD
\* and ticket are valid records that title id as the pending launch and starts a
\* reload to the IOS named by the title's TMD; in that call the title context is
\* not updated and no bootstrap happens.
C18_FirstLaunchRecordsAndReloads ==
  [][(LaunchCalled' /\ ~last'.skip /\ last'.title[1] # 1 /\ Launchable(last'.title))
       => /\ s_title_to_launch' = last'.title
          /\ last'.reload = nand[last'.title].tmd.ios_id
          /\ last'.fired = 0
          /\ ~s_title_context'.active
          /\ last'.boot = 0]_vars

C21_LaunchReplyConvention ==
  (Handled("Launch") \/ (Handled("LaunchBC") /\ last.ok))
    => IF last.result
         THEN last.ret = NoReturn /\ last.acks = 2
         ELSE last.ret = ES_INVALID_TMD /\ last.acks = 0

\* A Launch of a game has succeeded, and a LaunchBC could follow.
C21_Witness ==
  /\ Handled("Launch")
  /\ last.title = GameA
  /\ last.result
  /\ last.ret = NoReturn
  /\ last.acks = 2

(***************************************************************************)
(* Export sessions                                                         *)
(***************************************************************************)
\* The export-content-id the last call replied with.
ReturnedId == last'.ret.val[2]

\* The call just made passed its handler's checks of vector counts and sizes.
Accepted(op) == Handled(op)' /\ last'.ok

\* The position of export stream cid is at the end of its content.
AtEnd(export, cid) ==
  export.contents[cid].content.m_position = U(export.contents[cid].content.m_content.size)

\* C22: ExportTitleInit issued while an export session is already valid is
\* rejected with ES_PARAMETER_SIZE_OR_ALIGNMENT and leaves the session's TMD,
\* title key, open export streams and valid flag unchanged.
C22_NestedInitRejected ==
  [][(Handled("ExportTitleInit")' /\ m_export_title_context.valid)
       => /\ last'.ret = ES_PARAMETER_SIZE_OR_ALIGNMENT
          /\ m_export_title_context'.tmd = m_export_title_context.tmd
          /\ m_export_title_context'.title_key = m_export_title_context.title_key
          /\ m_export_title_context'.contents = m_export_title_context.contents
          /\ m_export_title_context'.valid]_vars

\* An ExportTitleInit for another title was refused while GameA's session had a
\* stream open.
C22_Witness ==
  /\ Handled("ExportTitleInit") /\ last.ok
  /\ last.title = ChannelD
  /\ last.ret = ES_PARAMETER_SIZE_OR_ALIGNMENT
  /\ m_export_title_context.valid
  /\ m_export_title_context.tmd.title_id = GameA
  /\ DOMAIN m_export_title_context.contents # {}

\* C23: a successful ExportContentBegin returns the smallest non-negative integer
\* that is not a key of the session's stream map, and adds exactly one stream under
\* that id with position 0 and IV [index high byte, index low byte, 0 x 14],
\* leaving every other stream unchanged.
C23_BeginSmallestUnusedId ==
  [][(Handled("ExportContentBegin")' /\ last'.ret.err = "none")
       => LET before == m_export_title_context.contents
              after  == m_export_title_context'.contents
              cid    == ReturnedId
          IN  /\ last'.ret.val[1] = 0
              /\ cid \notin DOMAIN before
              /\ \A k \in 0..(cid - 1) : k \in DOMAIN before
              /\ DOMAIN after = DOMAIN before \cup {cid}
              /\ \A k \in DOMAIN before : after[k] = before[k]
              /\ after[cid].content.m_position = U(0)
              /\ after[cid].iv =
                   [b0 |-> after[cid].content.m_content.index \div 256,
                    b1 |-> after[cid].content.m_content.index % 256,
                    rest |-> 0, chained |-> FALSE]]_vars

\* Stream 0 was closed while stream 1 stayed open, and a Begin for the content
\* with index 258 was then given id 0.
C23_Witness ==
  /\ Handled("ExportContentBegin") /\ last.ret = Value(U(0))
  /\ DOMAIN m_export_title_context.contents = {0, 1}
  /\ m_export_title_context.contents[0].content.m_content.index = 258
  /\ m_export_title_context.contents[0].iv.b0 = 1
  /\ m_export_title_context.contents[0].iv.b1 = 2

\* C24: ExportContentEnd on a stream whose position is not the content's declared
\* size fails and keeps the stream; ExportContentData never moves a position past
\* the declared size, and once the position is exactly the declared size
\* ExportContentEnd succeeds and removes the stream, which frees its id for a
\* following ExportContentBegin.
C24_EndOnlyWhenConsumed ==
  /\ [](\A k \in DOMAIN m_export_title_context.contents :
          ~Gt32(m_export_title_context.contents[k].content.m_position,
                U(m_export_title_context.contents[k].content.m_content.size)))
  /\ [][(Accepted("ExportContentEnd") /\ m_export_title_context.valid
           /\ last'.cfd \in DOMAIN m_export_title_context.contents)
          => IF AtEnd(m_export_title_context, last'.cfd)
               THEN /\ last'.ret = IPC_SUCCESS
                    /\ DOMAIN m_export_title_context'.contents =
                         DOMAIN m_export_title_context.contents \ {last'.cfd}
                    /\ FirstUnused(m_export_title_context'.contents, 0) <= last'.cfd
                    /\ \A k \in DOMAIN m_export_title_context'.contents :
                         m_export_title_context'.contents[k] =
                           m_export_title_context.contents[k]
               ELSE /\ last'.ret = ES_PARAMETER_SIZE_OR_ALIGNMENT
                    /\ m_export_title_context' = m_export_title_context]_vars

\* An ExportContentEnd failed on a stream that ExportContentData had moved part of
\* the way.
C24_WitnessEarly ==
  /\ Handled("ExportContentEnd") /\ last.ok
  /\ last.ret = ES_PARAMETER_SIZE_OR_ALIGNMENT
  /\ m_export_title_context.valid
  /\ last.cfd \in DOMAIN m_export_title_context.contents
  /\ m_export_title_context.contents[last.cfd].content.m_position = U(2)
  /\ m_export_title_context.contents[last.cfd].iv.chained

\* ExportContentEnd closed stream 0 while stream 1, fully read, stayed open.
C24_Witness ==
  /\ Handled("ExportContentEnd") /\ last.ret = IPC_SUCCESS /\ last.cfd = 0
  /\ DOMAIN m_export_title_context.contents = {1}
  /\ AtEnd(m_export_title_context, 1)
  /\ m_export_title_context.contents[1].iv.chained

\* C25: ExportTitleDone on a valid export session clears it completely: afterwards
\* the session is not valid and holds no open export streams.
C25_DoneClearsSession ==
  [][(last'.op = "ExportTitleDone" /\ m_export_title_context.valid)
       => /\ ~m_export_title_context'.valid
          /\ m_export_title_context'.contents = EmptyMap]_vars

\* C25: the first ExportContentBegin after a successful ExportTitleInit returns
\* id 0.
C25_NextSessionStartsAtZero ==
  [][(last.op = "ExportTitleInit" /\ last.ret = IPC_SUCCESS
        /\ Handled("ExportContentBegin")' /\ last'.ret.err = "none")
       => last'.ret = Value(U(0))]_vars

(***************************************************************************)
(* Encrypt and Decrypt                                                     *)
(***************************************************************************)
Crypted == Handled("Encrypt") \/ Handled("Decrypt")

WasInstalled == IsDirectory(nand, session_root, last'.title)

\* What every DeleteTitle call with accepted vectors does, the two titles of the
\* example apart.
DeleteTitleRule(title_id) ==
  IF title_id[1] = 1 /\ title_id[2] <= 257
    THEN /\ last'.ret = ES_PARAMETER_SIZE_OR_ALIGNMENT
         /\ UNCHANGED <<nand, session_root>>
  ELSE IF ~WasInstalled THEN last'.ret = FS_ENOENT /\ UNCHANGED <<nand, session_root>>
  ELSE IF last'.io
    THEN last'.ret = IPC_SUCCESS /\ ~IsDirectory(nand', session_root', title_id)
    ELSE last'.ret \in {FS_ENOENT, FS_EACCESS}

\* C27: DeleteTitle is permitted only if (title_id>>32) != 0x00000001 or
\* (title_id & 0xFFFFFFFF) > 0x101; accordingly deleting the installed title
\* 0x0001000100000002 succeeds and deleting 0x0001000100000001 is rejected with
\* ES_PARAMETER_SIZE_OR_ALIGNMENT.
C27_DeleteTitleExamples ==
  [][Accepted("DeleteTitle")
       => IF last'.title = ChannelE
            THEN last'.ret = ES_PARAMETER_SIZE_OR_ALIGNMENT
            ELSE DeleteTitleRule(last'.title)]_vars

\* C27, amended: DeleteTitle is rejected with ES_PARAMETER_SIZE_OR_ALIGNMENT exactly
\* for the titles with (title_id>>32) = 0x00000001 and (title_id & 0xFFFFFFFF) <=
\* 0x101; any other title that is installed is deleted, with IPC_SUCCESS, when the
\* file operations succeed, and that includes both 0x0001000100000002 and
\* 0x0001000100000001; a permitted title that is not installed gets FS_ENOENT.
C27_DeleteTitlePermission ==
  [][Accepted("DeleteTitle") => DeleteTitleRule(last'.title)]_vars

\* The installed title 0x0001000100000001 was deleted.
C27_Witness ==
  /\ Handled("DeleteTitle") /\ last.title = ChannelE /\ last.ret = IPC_SUCCESS
  /\ TMDFile(ChannelE) \notin session_root

\* The installed title 0x0001000100000002 was deleted, and the system menu was not.
C27_WitnessF ==
  /\ Handled("DeleteTitle") /\ last.title = ChannelF /\ last.ret = IPC_SUCCESS

C27_WitnessMenu ==
  /\ Handled("DeleteTitle") /\ last.ok /\ last.title = TITLEID_SYSMENU
  /\ last.ret = ES_PARAMETER_SIZE_OR_ALIGNMENT

(***************************************************************************)
(* The STM event-hook device                                               *)
(***************************************************************************)
\* The step is an event-hook ioctl (not an ioctl with another parameter).
HookRequested == last'.op = "eventhook_IOCtl" /\ last'.ok

C29_AtMostOneReply ==
  \A i \in 1..Len(parked.requests) : parked.requests[i].replies <= 1

\* C30: a parked event-hook request stays pending through any number of other
\* commands until a button event occurs or the device is closed; closing the
\* device drops it, so no reply for it is enqueued by any later button event.
C30_ParkedUntilEventOrClose ==
  /\ [][(parked.current # 0
           /\ last'.op \notin {"eventhook_ResetButton", "eventhook_Close"})
          => parked'.current = parked.current]_vars
  /\ [][last'.op = "eventhook_Close"
          => m_event_hook_address' = 0 /\ reply_queue' = reply_queue]_vars
  /\ [][\A i \in 1..Len(parked.requests) :
          parked'.requests[i].replies # parked.requests[i].replies
            => m_Active /\ m_event_hook_address = parked.requests[i].address]_vars

\* C30, the part about closing alone: Close forgets the parked request, and a
\* button event that finds no request registered enqueues nothing.
C30_CloseDrops ==
  /\ [][last'.op = "eventhook_Close"
          => m_event_hook_address' = 0 /\ reply_queue' = reply_queue]_vars
  /\ [][(last'.op = "eventhook_ResetButton" /\ m_event_hook_address = 0)
          => reply_queue' = reply_queue]_vars

(***************************************************************************)
(* Save and restore of the state                                           *)
(***************************************************************************)
\* C31: saving the service state and restoring it reproduces the title context,
\* the CFD counter, the import session, the export session and the content access
\* table: after the restore the table holds exactly the saved handles, each with
\* its saved title id, content entry and read position, and no other handles.
C31_RestoreReproduces ==
  [][last'.op = "DoStateRead"
       => /\ TitleContext_DoStateWrite(s_title_context') = savestate.s_title_context
          /\ m_AccessIdentID' = savestate.m_AccessIdentID
          /\ m_addtitle_tmd' = savestate.m_addtitle_tmd
          /\ m_addtitle_content_id' = savestate.m_addtitle_content_id
          /\ m_addtitle_content_buffer' = savestate.m_addtitle_content_buffer
          /\ m_export_title_context' = savestate.m_export_title_context
          /\ m_ContentAccessMap' = savestate.m_ContentAccessMap]_vars

\* C31 for a restore that follows the save at once: nothing has changed in between.
C31_ImmediateRoundTrip ==
  [][(last.op = "DoStateWrite" /\ last'.op = "DoStateRead")
       => m_ContentAccessMap' = m_ContentAccessMap]_vars

\* C31 without the table: the other structures come back as they were saved.
C31_RestoreOfTheRest ==
  [][last'.op = "DoStateRead"
       => /\ TitleContext_DoStateWrite(s_title_context') = savestate.s_title_context
          /\ m_AccessIdentID' = savestate.m_AccessIdentID
          /\ m_addtitle_tmd' = savestate.m_addtitle_tmd
          /\ m_addtitle_content_id' = savestate.m_addtitle_content_id
          /\ m_addtitle_content_buffer' = savestate.m_addtitle_content_buffer
          /\ m_export_title_context' = savestate.m_export_title_context]_vars

\* C34: in every reachable state every handle present in the content access table
\* is smaller than the CFD counter.
C34_HandlesBelowCounter ==
  \A cfd \in DOMAIN m_ContentAccessMap : cfd < m_AccessIdentID

\* C34: OpenContent / OpenTitleContent never overwrites an existing entry.
C34_OpenNeverOverwrites ==
  [][(Handled("OpenTitleContent")' /\ last'.ret.val # InvalidCFD
        /\ last'.ret.err = "none")
       => last'.ret.val[2] \notin DOMAIN m_ContentAccessMap]_vars

(***************************************************************************)
(* The content access table and the installed titles                       *)
(***************************************************************************)
\* C32: in every reachable state, every entry of the content access table refers
\* to a title whose content loader is valid and contains the entry's content
\* index.
C32_EntriesResolve ==
  \A cfd \in DOMAIN m_ContentAccessMap :
    LET entry  == m_ContentAccessMap[cfd]
        loader == AccessContentDevice(s_title_context, s_content_file, nand,
                                      entry.m_title_id)
    IN  loader.valid /\ GetContentByIndex(loader, entry.m_content.index) # {}

(***************************************************************************)
(* Handlers that may reload the service                                    *)
(***************************************************************************)
\* The step just taken ran LaunchTitle from a handler that may reload the service.
ReloadingStep == last'.op \in {"Launch", "LaunchBC", "Init"} /\ last'.launches > 0

\* The acknowledgements the reload itself enqueued during the last call.
AcksOfReload == IF last.reload # NoTitle /\ last.reload_ok THEN 1 ELSE 0

\* C33: Launch, LaunchBC and the launch re-entered from ES::Init neither write nor
\* read the content access table, the CFD counter, the import session or the
\* export session once LaunchTitle has run: the fields are left as they were and
\* the answer is fixed by what LaunchTitle returned alone.
C33_NoInstanceStateAfterLaunch ==
  [][ReloadingStep =>
       /\ UNCHANGED <<m_ContentAccessMap, m_AccessIdentID, m_addtitle_tmd,
                      m_addtitle_content_id, m_addtitle_content_buffer,
                      m_export_title_context>>
       /\ last'.op = "Init" => last'.ret = NoReturn /\ last'.acks = AcksOfReload'
       /\ last'.op # "Init" =>
            IF last'.result
              THEN last'.ret = NoReturn /\ last'.acks = AcksOfReload' + 1
              ELSE last'.ret = ES_INVALID_TMD /\ last'.acks = AcksOfReload']_vars

\* A Launch has reloaded the IOS while the service held an open content.
C33_Witness ==
  /\ Handled("Launch")
  /\ last.result
  /\ last.reload # NoTitle
  /\ m_AccessIdentID > 0
  /\ DOMAIN m_ContentAccessMap # {}

(***************************************************************************)
(* Import sessions: failed and finished steps                              *)
(***************************************************************************)
\* C35: an AddContentStart that returns an error leaves the import session as it
\* was, also when it is refused for want of a valid pending TMD: the pending
\* content id and the accumulator are not touched.
C35_FailedStartChangesNothing ==
  [][(last'.op = "AddContentStart" /\ last'.ret.err # "none")
       => UNCHANGED <<m_addtitle_tmd, m_addtitle_content_id,
                      m_addtitle_content_buffer>>]_vars

\* C36: after a successful AddTitleFinish no content transfer is in flight: the
\* pending content id is 0xFFFFFFFF.
C36_FinishedImportIsIdle ==
  (Handled("AddTitleFinish") /\ last.ret = IPC_SUCCESS)
    => m_addtitle_content_id = InvalidCFD

(***************************************************************************)
(* The pending launch and the nesting of LaunchTitle                       *)
(***************************************************************************)
\* C37: a LaunchTitle that is entered with no launch pending and returns failure
\* leaves no launch pending, so a later ES::Init has nothing left over to launch.
C37_FailedLaunchLeavesNothingPending ==
  [][(LaunchCalled' /\ ~last'.result /\ s_title_to_launch = NoTitle)
       => s_title_to_launch' = NoTitle]_vars

\* C38: every LaunchTitle call returns: the calls LaunchTitle -> LaunchPPCTitle ->
\* LaunchTitle(required IOS) never nest beyond MaxLaunchDepth, whatever title the
\* TMD of a launched title names as its IOS.
C38_LaunchTitleReturns ==
  LaunchRan => ~last.cut

(***************************************************************************)
(* Export streams: positions and the bytes written to the caller           *)
(***************************************************************************)
\* The position of export stream cid.
PositionOf(export, cid) == export.contents[cid].content.m_position

\* What is left of the content of export stream cid.
RemainingOf(export, cid) ==
  Sub32(U(export.contents[cid].content.m_content.size), PositionOf(export, cid))

\* C39: the position of every open export stream is at most the declared size of
\* its content; a successful ExportContentData adds to the position the lesser of
\* what is left of the content and the size of the output vector, and
\* ExportContentData on a stream that is fully consumed fails and leaves the
\* position as it was.
C39_DataAdvancesByMin ==
  /\ [](\A k \in DOMAIN m_export_title_context.contents :
          ~Gt32(PositionOf(m_export_title_context, k),
                U(m_export_title_context.contents[k].content.m_content.size)))
  /\ [][(Accepted("ExportContentData") /\ m_export_title_context.valid
           /\ last'.cfd \in DOMAIN m_export_title_context.contents)
          => LET left == RemainingOf(m_export_title_context, last'.cfd)
                 step == IF Gt32(left, last'.x) THEN last'.x ELSE left
             IN  /\ left = U(0) => last'.ret = ES_PARAMETER_SIZE_OR_ALIGNMENT
                 /\ IF last'.ret = IPC_SUCCESS
                      THEN PositionOf(m_export_title_context', last'.cfd) =
                             Add32(PositionOf(m_export_title_context, last'.cfd), step)
                      ELSE m_export_title_context' = m_export_title_context]_vars

\* ExportContentData with an output vector of 5 bytes has read the last byte of a
\* content of 3 bytes whose first 2 bytes had been read before.
C39_Witness ==
  /\ Handled("ExportContentData") /\ last.ret = IPC_SUCCESS
  /\ last.x = U(5)
  /\ last.written = 32
  /\ m_export_title_context.contents[last.cfd].content.m_content.size = 3
  /\ AtEnd(m_export_title_context, last.cfd)

\* C40: ExportContentData never writes more bytes at the address of the output
\* vector than the size of the output vector.
C40_WritesWithinOutput ==
  Handled("ExportContentData") => last.written <= last.x[2]

====
